---- MODULE Spec2Model ----
(***************************************************************************)
(* Slide change-detection and deduplication of video2summary.              *)
(*                                                                         *)
(* Two capture pipelines are modelled:                                     *)
(*   AdvancedSlideCapture  (src/slide_capture_advanced.py)                 *)
(*   ImprovedSlideCapture  (src/improved_slide_capture.py)                 *)
(*                                                                         *)
(* Numbers.  Thresholds and similarities are rationals; a rational is a    *)
(* pair <<numerator, denominator>> with a positive denominator, and the    *)
(* thresholds the caller passes are given in thousandths.  A hash is the   *)
(* hex string the code builds, kept as a sequence of hex digits 0..15.     *)
(* A timestamp frame_idx / fps is the pair <<frame_idx, fps>>.             *)
(***************************************************************************)
EXTENDS Integers, Sequences, FiniteSets, TLC

(***************************************************************************)
(* Rationals                                                               *)
(***************************************************************************)
RatLT(a, b) == a[1] * b[2] < b[1] * a[2]

RatLE(a, b) == a[1] * b[2] <= b[1] * a[2]

RatGT(a, b) == RatLT(b, a)

RatGE(a, b) == RatLE(b, a)

Pm(t) == <<t, 1000>>

Min(a, b) == IF a < b THEN a ELSE b

Max(a, b) == IF a > b THEN a ELSE b

None == [none |-> TRUE]

(***************************************************************************)
(* Hashes: hex strings of hash_size * 2 digits (hash_size = 8)             *)
(***************************************************************************)
hash_size == 8

HexLen == hash_size * 2

Bit(d, k) == (d \div (2 ^ k)) % 2

\* the bits set in the first digit and clear in the second
DigitDiffOneWay(d1, d2) ==
    Cardinality({k \in 0..3 : Bit(d1, k) = 1 /\ Bit(d2, k) = 0})

\* the bits on which the two digits agree
DigitSame(d1, d2) ==
    Cardinality({k \in 0..3 : Bit(d1, k) = Bit(d2, k)})

\* number of differing bits of two hex digits
DigitDiff(d1, d2) ==
    Cardinality({k \in 0..3 : Bit(d1, k) # Bit(d2, k)})

RECURSIVE SumDiff(_, _, _)
SumDiff(h1, h2, n) ==
    IF n = 0 THEN 0 ELSE SumDiff(h1, h2, n - 1) + DigitDiff(h1[n], h2[n])

\* hamming_distance: both strings are expanded to 4 bits per digit (bin + zfill)
\* and zip() pairs the bits up to the shorter string
hamming_distance(hash1, hash2) ==
    SumDiff(hash1, hash2, Min(Len(hash1), Len(hash2)))

\* hash_similarity: 1.0 - distance / (len(hash1) * 4), as a rational
hash_similarity(hash1, hash2) ==
    <<Len(hash1) * 4 - hamming_distance(hash1, hash2), Len(hash1) * 4>>

\* calculate_phash_similarity: popcount of the xor of the two integers,
\* i.e. the strings are right-aligned before they are compared
RECURSIVE PadLeft(_, _)
PadLeft(h, n) == IF Len(h) >= n THEN h ELSE PadLeft(<<0>> \o h, n)

calculate_phash_similarity(hash1, hash2) ==
    LET n == Max(Len(hash1), Len(hash2))
        d == SumDiff(PadLeft(hash1, n), PadLeft(hash2, n), n)
    IN  <<Len(hash1) * 4 - d, Len(hash1) * 4>>

(***************************************************************************)
(* Frames.  A decoded frame is [gray, pic]: pic = 0 is a frame of one      *)
(* solid colour of grey level gray; pic > 0 is one of a few pictures       *)
(* (slides) whose pairwise measurements are tabulated below, gray being    *)
(* its histogram class.                                                    *)
(***************************************************************************)
Pics == 1..10

Solid(g) == [gray |-> g, pic |-> 0]

Picture(g, p) == [gray |-> g, pic |-> p]

\* the bits (dct_low > avg) of a picture, as the hex string the code prints:
\* the DC bit is set, the low-frequency AC bits differ from picture to picture
PicHash(p) ==
    LET lo == CASE p = 1 -> <<0, 0, 0, 0>>
                [] p = 2 -> <<0, 0, 0, 1>>
                [] p = 3 -> <<0, 0, 0, 7>>
                [] p = 4 -> <<0, 0, 1, 8>>
                [] p = 5 -> <<0, 0, 6, 0>>
                [] p = 6 -> <<15, 15, 0, 0>>
                [] p = 7 -> <<0, 0, 0, 3>>
                [] p = 9 -> <<0, 0, 3, 15>>
                [] p = 10 -> <<0, 3, 3, 15>>
                [] OTHER -> <<0, 0, 0, 0>>
        hi == IF p = 8 THEN <<15, 15, 15, 15>> ELSE <<0, 0, 0, 0>>
    IN  <<8, 0, 0, 0, 0, 0, 0, 0>> \o hi \o lo

\* bits -> int(hash_str, 2) -> hex(...)[2:].zfill(hash_size * 2): leading zero
\* digits are dropped by hex() and put back by zfill
RECURSIVE StripZeros(_)
StripZeros(h) ==
    IF Len(h) > 1 /\ h[1] = 0 THEN StripZeros(Tail(h)) ELSE h

HexZfill(h) == PadLeft(StripZeros(h), HexLen)

\* compute_phash: DCT of the downscaled grey image, low-frequency block,
\* threshold against the mean of the block without its DC term.  A solid
\* frame has DC = 32 * gray and every AC term 0, hence avg = 0: the DC bit is
\* gray > 0 and every other bit is 0.
compute_phash(image) ==
    IF image.pic = 0
    THEN HexZfill(<<(IF 32 * image.gray > 0 THEN 8 ELSE 0)>>
                  \o [i \in 1..(HexLen - 1) |-> 0])
    ELSE HexZfill(PicHash(image.pic))

\* calculate_phash (improved variant): 8x8 downscale, DCT, threshold against
\* the mean of dct_low[1:, 1:]; a solid frame has DC = 8 * gray, the rest 0
calculate_phash(img) ==
    IF img.pic = 0
    THEN PadLeft(StripZeros(<<(IF 8 * img.gray > 0 THEN 8 ELSE 0)>>
                            \o [i \in 1..(HexLen - 1) |-> 0]), HexLen)
    ELSE PadLeft(StripZeros(PicHash(img.pic)), HexLen)

\* measurements between two different pictures of the pool
NearCopies(p, q) == {p, q} = {1, 2}

SameLayout(p, q) == {p, q} \subseteq {1, 2, 3, 6, 7}

\* calculate_histogram_diff: correlation of the normalised grey histograms.
\* Two solid frames of different grey have one-bin histograms in different
\* bins, whose correlation is -1/255.
calculate_histogram_diff(img1, img2) ==
    IF img1 = img2 THEN <<1, 1>>
    ELSE IF img1.pic = 0 /\ img2.pic = 0 THEN <<-1, 255>>
    ELSE IF img1.pic # 0 /\ img2.pic # 0 /\ img1.gray = img2.gray
         THEN <<98, 100>>
    ELSE <<1, 2>>

\* skimage structural_similarity of the grey images.  For two solid frames
\* all variances are 0 and ssim = (2ab + C1) / (a^2 + b^2 + C1) with
\* C1 = (0.01 * 255)^2 = 6.5025 = 2601 / 400.
ssim(img1, img2) ==
    IF img1 = img2 THEN <<1, 1>>
    ELSE IF img1.pic = 0 /\ img2.pic = 0
         THEN <<800 * img1.gray * img2.gray + 2601,
                400 * (img1.gray * img1.gray + img2.gray * img2.gray) + 2601>>
    ELSE IF img1.pic # 0 /\ img2.pic # 0
         THEN IF NearCopies(img1.pic, img2.pic) THEN <<97, 100>>
              ELSE IF SameLayout(img1.pic, img2.pic) THEN <<90, 100>>
              ELSE <<40, 100>>
    ELSE <<30, 100>>

\* calculate_edge_diff: 1 - (sum of |Canny(img1) - Canny(img2)|) / (255 * pixels);
\* a solid frame has no edge
calculate_edge_diff(img1, img2) ==
    IF img1 = img2 THEN <<1, 1>>
    ELSE IF img1.pic = 0 /\ img2.pic = 0 THEN <<1, 1>>
    ELSE IF img1.pic # 0 /\ img2.pic # 0
         THEN IF NearCopies(img1.pic, img2.pic) THEN <<99, 100>>
              ELSE IF SameLayout(img1.pic, img2.pic) THEN <<93, 100>>
              ELSE <<80, 100>>
    ELSE <<85, 100>>

\* detect_text_regions: number of contours of area > 100 of the thresholded
\* morphological gradient; a solid frame has gradient 0 everywhere
detect_text_regions(img) ==
    CASE img.pic = 0 -> 0
      [] img.pic = 1 -> 10
      [] img.pic = 2 -> 10
      [] img.pic = 3 -> 17
      [] img.pic = 4 -> 20
      [] img.pic = 5 -> 3
      [] img.pic = 6 -> 8
      [] img.pic = 7 -> 12
      [] OTHER -> 30

\* cv2.Laplacian(gray, CV_64F).var(): 0 for a solid frame
Sharpness(img) ==
    CASE img.pic = 0 -> 0
      [] img.pic = 1 -> 50
      [] img.pic = 2 -> 50
      [] img.pic = 3 -> 80
      [] img.pic = 4 -> 20
      [] img.pic = 5 -> 60
      [] img.pic = 6 -> 10
      [] img.pic = 7 -> 70
      [] OTHER -> 40

(***************************************************************************)
(* Grouping pass of AdvancedSlideCapture                                   *)
(***************************************************************************)
near_identical == 980

\* BestGroup with the threshold test inverted (joins what is below it)
RECURSIVE BestGroupBelow(_, _, _, _, _)
BestGroupBelow(items, k, phash, thr, best) ==
    IF k > Len(items) THEN best
    ELSE LET p_similarity == hash_similarity(phash, items[k][1])
         IN  IF RatGT(p_similarity, best[2]) /\ RatLE(p_similarity, Pm(thr))
             THEN BestGroupBelow(items, k + 1, phash, thr,
                                 <<items[k][2], p_similarity>>)
             ELSE BestGroupBelow(items, k + 1, phash, thr, best)

\* BestGroup taking the first group over the threshold instead of the best
RECURSIVE BestGroupFirst(_, _, _, _, _)
BestGroupFirst(items, k, phash, thr, best) ==
    IF k > Len(items) THEN best
    ELSE LET p_similarity == hash_similarity(phash, items[k][1])
         IN  IF best[1] = -1 /\ RatGE(p_similarity, Pm(thr))
             THEN BestGroupFirst(items, k + 1, phash, thr,
                                 <<items[k][2], p_similarity>>)
             ELSE BestGroupFirst(items, k + 1, phash, thr, best)

\* the loop of find_or_create_group over phash_to_group.items(), in
\* insertion order; best is <<best_group, best_similarity>>
RECURSIVE BestGroup(_, _, _, _, _)
BestGroup(items, k, phash, thr, best) ==
    IF k > Len(items) THEN best
    ELSE LET p_similarity == hash_similarity(phash, items[k][1])
         IN  IF RatGT(p_similarity, best[2]) /\ RatGE(p_similarity, Pm(thr))
             THEN BestGroup(items, k + 1, phash, thr, <<items[k][2], p_similarity>>)
             ELSE BestGroup(items, k + 1, phash, thr, best)

\* dict assignment d[key] = value: an existing key keeps its position
DictPut(items, key, value) ==
    IF \E k \in 1..Len(items) : items[k][1] = key
    THEN [k \in 1..Len(items) |->
            IF items[k][1] = key THEN <<key, value>> ELSE items[k]]
    ELSE Append(items, <<key, value>>)

\* find_or_create_group numbering a joining record by the length of the whole
\* list instead of the length of its group
find_or_create_group_all(s, phash, thr) ==
    LET best == BestGroup(s.phash_to_group, 1, phash, thr, <<-1, <<0, 1>>>>)
    IN  IF best[1] # -1
        THEN [group_id |-> best[1],
              subgroup_idx |-> Len(s.slides_info) + 1,
              sess |-> s]
        ELSE [group_id |-> s.current_group_id + 1,
              subgroup_idx |-> 1,
              sess |-> [s EXCEPT
                  !.current_group_id = s.current_group_id + 1,
                  !.phash_to_group =
                      DictPut(s.phash_to_group, phash, s.current_group_id + 1)]]

\* find_or_create_group on a session s = [slides_info, phash_to_group,
\* current_group_id, ...]: the group, the sub-index and the updated session
find_or_create_group(s, phash, thr) ==
    LET best == BestGroup(s.phash_to_group, 1, phash, thr, <<-1, <<0, 1>>>>)
        best_group == best[1]
        group_slides == {k \in 1..Len(s.slides_info) :
                            s.slides_info[k].group_id = best_group}
    IN  IF best_group # -1
        THEN [group_id |-> best_group,
              subgroup_idx |-> Cardinality(group_slides) + 1,
              sess |-> s]
        ELSE [group_id |-> s.current_group_id + 1,
              subgroup_idx |-> 1,
              sess |-> [s EXCEPT
                  !.current_group_id = s.current_group_id + 1,
                  !.phash_to_group =
                      DictPut(s.phash_to_group, phash, s.current_group_id + 1)]]

\* the near-identical test dropping identical hashes only
SkipCheckIdentical(phash, processed_hashes) ==
    \E processed_hash \in processed_hashes :
        RatGE(hash_similarity(phash, processed_hash), <<1, 1>>)

\* the near-identical test of group_and_deduplicate
SkipCheck(phash, processed_hashes) ==
    \E processed_hash \in processed_hashes :
        RatGT(hash_similarity(phash, processed_hash), Pm(near_identical))

EmptySession ==
    [slides_info |-> <<>>, phash_to_group |-> <<>>, current_group_id |-> 0,
     processed_hashes |-> {}, final_slides |-> <<>>]

\* one iteration of the loop of group_and_deduplicate for the accepted frame
\* sf = [frame_idx, frame, phash]
GroupRecord(s, sf, thr, fps) ==
    IF SkipCheck(sf.phash, s.processed_hashes) THEN s
    ELSE LET g == find_or_create_group(s, sf.phash, thr)
             slide_info == [frame_idx |-> sf.frame_idx,
                            timestamp |-> <<sf.frame_idx, fps>>,
                            phash |-> sf.phash,
                            group_id |-> g.group_id,
                            subgroup_idx |-> g.subgroup_idx,
                            filename |-> <<>>]
         IN  [g.sess EXCEPT
                 !.slides_info = Append(@, slide_info),
                 !.final_slides = Append(@, [frame_idx |-> sf.frame_idx,
                                             frame |-> sf.frame,
                                             info |-> Len(g.sess.slides_info) + 1]),
                 !.processed_hashes = @ \cup {sf.phash}]

\* the whole loop, on the first n accepted frames
RECURSIVE GroupAll(_, _, _, _)
GroupAll(frames, n, thr, fps) ==
    IF n = 0 THEN EmptySession
    ELSE GroupRecord(GroupAll(frames, n - 1, thr, fps), frames[n], thr, fps)

(***************************************************************************)
(* State                                                                   *)
(***************************************************************************)
VARIABLES
    variant,              \* "advanced" or "improved": the class that runs
    video,                \* the content of the file: what each frame shows
    total_frames, fps,    \* self.total_frames, self.fps
    fps_den,              \* the frame rate is fps / fps_den frames per second:
                          \* 1 but for files of a fractional rate
    similarity_threshold, \* self.similarity_threshold / self.threshold
    group_threshold,      \* self.group_threshold
    pc,                   \* position of the run
    result,               \* what the entry point returned: "none" while it
                          \* runs, then "success" or "failure"
    scan_i,               \* loop variable i of fast_scan
    prev_frame,           \* prev_frame of the running loop (None or a frame)
    prev_frame_idx,       \* prev_frame_idx of the precise detector
    candidate_frames,     \* list built by fast_scan
    cand_pos,             \* position of the precise detector in the list
    slide_frames,         \* frames accepted by the precise detector
    grp_pos,              \* position of the grouping loop in slide_frames
    slides_info,          \* self.slides_info
    phash_to_group,       \* self.phash_to_group, in insertion order
    current_group_id,     \* self.current_group_id
    processed_hashes,     \* processed_hashes of group_and_deduplicate
    final_slides,         \* list returned by group_and_deduplicate
    save_pos,             \* position of the save loop
    saved_files,          \* saved_files of the save loop
    disk,                 \* image files that exist in the output folder
    metadata_file,        \* content of slides_metadata.json, None if absent
    frames_read,          \* number of cap.read() calls made so far
    final_frames,         \* final_frames of supplementary_detection
    gap_i,                \* loop variable i of supplementary_detection (+ 1)
    check_idx,            \* check_idx of its inner loop, -1 outside of it
    similarity_groups,    \* self.similarity_groups, in insertion order
    unique_frames,        \* list returned by supplementary_detection
    metadata,             \* self.metadata
    frame_pos,            \* frame_idx of capture_slides_from_video
    saved_count,          \* its saved_count
    last_saved_time,      \* its last_saved_time, a rational
    slides_data,          \* its slides_data
    frame_hashes,         \* its frame_hashes, in insertion order
    now,                  \* the wall clock, in seconds, read by time.strftime
    first_run,            \* slides_metadata.json as an earlier run of
                          \* capture_slides_advanced left it, None if none
    hash_a,               \* first argument of a call of hash_similarity or
                          \* calculate_phash_similarity
    hash_b,               \* its second argument
    adv_similarity,       \* what hash_similarity(hash_a, hash_b) did
    imp_similarity,       \* what calculate_phash_similarity(hash_a, hash_b) did
    reselected,           \* what the per-group selection of
                          \* supplementary_detection gave when it was applied
                          \* to the same groups once more
    folder,               \* the image files of the folder reorder_slides is
                          \* run on: [capture, name] each
    reorder_runs,         \* how often reorder_slides has run on the folder
    names_before,         \* the file names before its last run
    frame_groups,         \* the 'group' fields of frame_data after the
                          \* grouping loop of supplementary_detection ran on
                          \* the pHashes of slide_frames
    removed               \* whether remove_duplicates_in_groups has run on
                          \* the output folder, and its removed_count

vars == <<variant, video, total_frames, fps, fps_den, similarity_threshold,
          group_threshold, pc, result, scan_i, prev_frame, prev_frame_idx,
          candidate_frames, cand_pos, slide_frames, grp_pos, slides_info,
          phash_to_group, current_group_id, processed_hashes, final_slides,
          save_pos, saved_files, disk, metadata_file, frames_read,
          final_frames, gap_i, check_idx, similarity_groups, unique_frames,
          metadata, frame_pos, saved_count, last_saved_time, slides_data,
          frame_hashes, now, first_run, hash_a, hash_b, adv_similarity,
          imp_similarity, reselected, folder, reorder_runs, names_before,
          frame_groups, removed>>

\* locals of capture_slides_from_video (video_audio_processor.py)
stdVars == <<frame_pos, saved_count, last_saved_time, slides_data,
             frame_hashes>>

\* state of the entry points other than the two capture classes
\* a direct call of one of the two similarity functions
callVars == <<hash_a, hash_b, adv_similarity, imp_similarity>>

\* a folder of slide images and the runs of reorder_slides on it
reorderVars == <<folder, reorder_runs, names_before>>

NotGrouped == [done |-> FALSE, group |-> <<>>]

\* what the post-processing and the stand-alone grouping loop work on
NotRemoved == [done |-> FALSE, count |-> 0]

toolVars == <<reorderVars, frame_groups, removed>>

otherVars == <<stdVars, now, first_run, callVars, reselected, toolVars>>

ReorderIdle ==
    /\ folder = {}
    /\ reorder_runs = 0
    /\ names_before = {}
    /\ frame_groups = NotGrouped
    /\ removed = NotRemoved

\* the selection has not been applied a second time
NotReselected == [done |-> FALSE, frames |-> <<>>]

\* a call that has not been made
NotCalled == [called |-> FALSE, raised |-> FALSE, value |-> <<0, 1>>]

CallIdle ==
    /\ hash_a = <<>>
    /\ hash_b = <<>>
    /\ adv_similarity = NotCalled
    /\ imp_similarity = NotCalled

\* no call of capture_slides_from_video is under way
StdIdle ==
    /\ frame_pos = 0
    /\ saved_count = 0
    /\ last_saved_time = <<-1000, 1>>
    /\ slides_data = <<>>
    /\ frame_hashes = <<>>

OtherIdle ==
    /\ StdIdle
    /\ CallIdle
    /\ ReorderIdle
    /\ reselected = NotReselected
    /\ now = 0
    /\ first_run = None

impVars == <<final_frames, gap_i, check_idx, similarity_groups, unique_frames,
             metadata>>

scanVars == <<scan_i, prev_frame, prev_frame_idx, candidate_frames, cand_pos,
              frames_read>>

groupVars == <<slides_info, phash_to_group, current_group_id,
               processed_hashes, final_slides>>

saveVars == <<save_pos, saved_files, disk, metadata_file>>

cfgVars == <<variant, video, total_frames, fps, fps_den, similarity_threshold,
             group_threshold>>

Session ==
    [slides_info |-> slides_info, phash_to_group |-> phash_to_group,
     current_group_id |-> current_group_id,
     processed_hashes |-> processed_hashes, final_slides |-> final_slides]

SetSession(s) ==
    /\ slides_info' = s.slides_info
    /\ phash_to_group' = s.phash_to_group
    /\ current_group_id' = s.current_group_id
    /\ processed_hashes' = s.processed_hashes
    /\ final_slides' = s.final_slides

(***************************************************************************)
(* group_and_deduplicate, one accepted frame per step                      *)
(***************************************************************************)
GroupStep ==
    /\ variant = "advanced"
    /\ pc = "group"
    /\ grp_pos <= Len(slide_frames)
    /\ LET sf == slide_frames[grp_pos]
       IN  IF fps = 0 /\ ~SkipCheck(sf.phash, processed_hashes)
           THEN \* timestamp = frame_idx / self.fps raises ZeroDivisionError
                /\ pc' = "done"
                /\ result' = "failure"
                /\ UNCHANGED <<grp_pos, groupVars>>
           ELSE /\ SetSession(GroupRecord(Session, sf, group_threshold, fps))
                /\ grp_pos' = grp_pos + 1
                /\ UNCHANGED <<pc, result>>
    /\ UNCHANGED <<cfgVars, otherVars, impVars, scanVars, slide_frames, saveVars>>

GroupDone ==
    /\ variant = "advanced"
    /\ pc = "group"
    /\ grp_pos > Len(slide_frames)
    /\ pc' = "save"
    /\ UNCHANGED <<cfgVars, otherVars, impVars, result, scanVars, slide_frames, grp_pos, groupVars,
                   saveVars>>

(***************************************************************************)
(* Grouping alone: group_and_deduplicate called on any list of accepted    *)
(* frames in ascending frame order                                         *)
(***************************************************************************)
MaxRecords == 4

GroupThresholds == {900, 950, 960}

NoVideo == [cut1 |-> 0, cut2 |-> 0, img1 |-> Solid(0), img2 |-> Solid(0),
            img3 |-> Solid(0), bad |-> {}, lead |-> <<>>]

\* the pictures the lists are drawn from
GroupPics == 1..7

AcceptedLists ==
    UNION {[1..n -> GroupPics] : n \in 0..MaxRecords}

\* the state in which group_and_deduplicate is entered with one of the lists
\* as slide_frames, the records being a number of frames apart, and one of
\* the thresholds
InitGroupingAt(lists, thresholds, apart) ==
    /\ OtherIdle
    /\ variant = "advanced"
    /\ video = NoVideo
    /\ total_frames = 100
    /\ fps = 10
    /\ fps_den = 1
    /\ similarity_threshold = 850
    /\ group_threshold \in thresholds
    /\ pc = "group"
    /\ result = "none"
    /\ scan_i = 0
    /\ prev_frame = None
    /\ prev_frame_idx = -1
    /\ candidate_frames = <<>>
    /\ cand_pos = 1
    /\ \E pics \in lists :
          slide_frames = [k \in 1..Len(pics) |->
              [frame_idx |-> apart * k,
               frame |-> Picture(128, pics[k]),
               phash |-> compute_phash(Picture(128, pics[k]))]]
    /\ grp_pos = 1
    /\ slides_info = <<>>
    /\ phash_to_group = <<>>
    /\ current_group_id = 0
    /\ processed_hashes = {}
    /\ final_slides = <<>>
    /\ save_pos = 1
    /\ saved_files = <<>>
    /\ disk = {}
    /\ metadata_file = None
    /\ frames_read = 0
    /\ final_frames = <<>>
    /\ gap_i = 1
    /\ check_idx = -1
    /\ similarity_groups = <<>>
    /\ unique_frames = <<>>
    /\ metadata = <<>>

\* records one second apart
InitGrouping(lists, thresholds) == InitGroupingAt(lists, thresholds, 10)

InitGroup == InitGrouping(AcceptedLists, GroupThresholds)

NextGroup == GroupStep \/ GroupDone

SpecGroup == InitGroup /\ [][NextGroup]_vars

\* the grouping loop has run over the whole list
GroupingComplete == variant = "advanced" /\ pc = "save"

NumGroupsAt(t) ==
    GroupAll(slide_frames, Len(slide_frames), t, fps).current_group_id

\* C1 (as stated): raising group_threshold never gives fewer groups
C1_MonotoneGroups ==
    GroupingComplete =>
        \A t \in GroupThresholds :
            t >= group_threshold => NumGroupsAt(t) >= current_group_id

\* C1 (amended): for a list of at most three accepted records, a run of the
\* grouping pass with a higher group_threshold never produces fewer groups
\* than the run with the lower one
C1_MonotoneUpToThree ==
    (GroupingComplete /\ Len(slide_frames) <= 3) =>
        \A t \in GroupThresholds :
            t >= group_threshold => NumGroupsAt(t) >= current_group_id

\* a run on three records in which the second record joined the first one's
\* group, while a higher threshold of the set separates them
C1_Witness ==
    /\ GroupingComplete
    /\ Len(slide_frames) = 3
    /\ current_group_id = 2
    /\ Len(slides_info) = 3
    /\ slides_info[2].group_id = 1
    /\ \E t \in GroupThresholds : t > group_threshold /\ NumGroupsAt(t) = 3

GroupMembers(g) ==
    SelectSeq(slides_info, LAMBDA s : s.group_id = g)

TsLess(a, b) == RatLT(a, b)

\* C3: within every group the subgroup_idx values of its members, taken in
\* the order of slides_info, are 1, 2, .., n and the timestamps increase
C3_SubgroupContiguous ==
    \A g \in 1..current_group_id :
        LET m == GroupMembers(g)
        IN  /\ \A k \in 1..Len(m) : m[k].subgroup_idx = k
            /\ \A k \in 1..(Len(m) - 1) :
                   TsLess(m[k].timestamp, m[k + 1].timestamp)

C3_Witness ==
    /\ GroupingComplete
    /\ \E g \in 1..current_group_id : Len(GroupMembers(g)) >= 3
    /\ current_group_id >= 2

InSlidesInfo(frame_idx) ==
    \E k \in 1..Len(slides_info) : slides_info[k].frame_idx = frame_idx

GroupOfFrame(frame_idx) ==
    {slides_info[k].group_id : k \in {n \in 1..Len(slides_info) :
                                        slides_info[n].frame_idx = frame_idx}}

ScenarioBPairs ==
    {p \in (1..Len(slide_frames)) \X (1..Len(slide_frames)) :
        /\ p[1] < p[2]
        /\ RatGT(hash_similarity(slide_frames[p[1]].phash,
                                 slide_frames[p[2]].phash), <<97, 100>>)}

LeadAt(f) == {k \in 1..Len(video.lead) : f < video.lead[k].until}

\* what frame f of the file shows
ImageAt(f) ==
    IF LeadAt(f) # {}
    THEN video.lead[CHOOSE k \in LeadAt(f) : \A j \in LeadAt(f) : k <= j].img
    ELSE IF f < video.cut1 THEN video.img1
    ELSE IF f < video.cut2 THEN video.img2
    ELSE video.img3

\* cap.set(CAP_PROP_POS_FRAMES, f); ret, frame = cap.read()
ReadOk(f) == 0 <= f /\ f < total_frames /\ f \notin video.bad

RECURSIVE SortedSeq(_)
SortedSeq(S) ==
    IF S = {} THEN <<>>
    ELSE LET m == CHOOSE x \in S : \A y \in S : x <= y
         IN  <<m>> \o SortedSeq(S \ {m})

Range(q) == {q[k] : k \in DOMAIN q}

(***************************************************************************)
(* fast_scan (the same code in both classes)                               *)
(***************************************************************************)
\* step: 30, widened for long videos
ScanStep(n) == IF n > 10000 THEN 60 ELSE IF n > 5000 THEN 45 ELSE 30

\* range(-step//2, step//2 + 1, 5), with Python's floor division
Offsets(step) ==
    LET start == -((step + 1) \div 2)
        stop  == (step \div 2) + 1
        n     == (stop - start + 4) \div 5
    IN  [k \in 1..n |-> start + 5 * (k - 1)]

\* the candidates added around sample i
Window(i, step) ==
    SelectSeq([k \in 1..Len(Offsets(step)) |-> i + Offsets(step)[k]],
              LAMBDA c : 0 <= c /\ c < total_frames)

hist_bound == 95

Start ==
    /\ variant \in {"advanced", "improved"}
    /\ pc = "start"
    /\ pc' = "fast_scan"
    /\ scan_i' = 0
    /\ prev_frame' = None
    /\ candidate_frames' = <<>>
    /\ UNCHANGED <<cfgVars, otherVars, impVars, result, prev_frame_idx, cand_pos, slide_frames,
                   grp_pos, groupVars, saveVars, frames_read>>

\* a failed read forgets the reference frame
ScanSkipForget(i, step) ==
    /\ scan_i' = i + step
    /\ prev_frame' = None
    /\ UNCHANGED candidate_frames

\* the body of the loop of fast_scan for a sample whose read failed
ScanSkip(i, step) ==
    /\ scan_i' = i + step
    /\ UNCHANGED <<prev_frame, candidate_frames>>

FastScanStep ==
    /\ pc = "fast_scan"
    /\ scan_i < total_frames
    /\ LET step == ScanStep(total_frames)
           i == scan_i
       IN  /\ frames_read' = frames_read + 1
           /\ IF ~ReadOk(i)
              THEN ScanSkip(i, step)
              ELSE LET small_frame == ImageAt(i)
                   IN  /\ candidate_frames' =
                             IF /\ prev_frame # None
                                /\ RatLT(calculate_histogram_diff(prev_frame,
                                                                  small_frame),
                                         <<hist_bound, 100>>)
                             THEN candidate_frames \o Window(i, step)
                             ELSE candidate_frames
                       /\ prev_frame' = small_frame
                       /\ scan_i' = i + step
    /\ UNCHANGED <<cfgVars, otherVars, impVars, pc, result, prev_frame_idx, cand_pos, slide_frames,
                   grp_pos, groupVars, saveVars>>

\* fast_scan returns sorted(set(candidate_frames)); the caller starts the
\* precise detector
FastScanDone ==
    /\ pc = "fast_scan"
    /\ scan_i >= total_frames
    /\ candidate_frames' = SortedSeq(Range(candidate_frames))
    /\ pc' = "precise"
    /\ prev_frame' = None
    /\ prev_frame_idx' = -1
    /\ cand_pos' = 1
    /\ slide_frames' = <<>>
    /\ UNCHANGED <<cfgVars, otherVars, impVars, result, scan_i, grp_pos, groupVars, saveVars,
                   frames_read>>

(***************************************************************************)
(* precise_detection_with_hashing (AdvancedSlideCapture)                   *)
(***************************************************************************)
\* (frame_idx - prev_frame_idx) > self.fps * 0.5
DwellAdvanced(frame_idx, prev_idx) == 2 * (frame_idx - prev_idx) > fps

PreciseStepAdvanced ==
    /\ variant = "advanced"
    /\ pc = "precise"
    /\ cand_pos <= Len(candidate_frames)
    /\ LET frame_idx == candidate_frames[cand_pos]
       IN  /\ frames_read' = frames_read + 1
           /\ cand_pos' = cand_pos + 1
           /\ IF ~ReadOk(frame_idx)
              THEN UNCHANGED <<prev_frame, prev_frame_idx, slide_frames>>
              ELSE LET frame == ImageAt(frame_idx)
                       phash == compute_phash(frame)
                       is_new_slide ==
                           \/ prev_frame = None
                           \/ RatLT(ssim(prev_frame, frame),
                                    Pm(similarity_threshold))
                   IN  IF is_new_slide /\ DwellAdvanced(frame_idx, prev_frame_idx)
                       THEN /\ slide_frames' = Append(slide_frames,
                                   [frame_idx |-> frame_idx, frame |-> frame,
                                    phash |-> phash])
                            /\ prev_frame' = frame
                            /\ prev_frame_idx' = frame_idx
                       ELSE UNCHANGED <<prev_frame, prev_frame_idx,
                                        slide_frames>>
    /\ UNCHANGED <<cfgVars, otherVars, impVars, pc, result, scan_i, candidate_frames, grp_pos,
                   groupVars, saveVars>>

PreciseDoneAdvanced ==
    /\ variant = "advanced"
    /\ pc = "precise"
    /\ cand_pos > Len(candidate_frames)
    /\ pc' = "group"
    /\ grp_pos' = 1
    /\ UNCHANGED <<cfgVars, otherVars, impVars, result, scanVars, slide_frames, groupVars,
                   saveVars>>

(***************************************************************************)
(* save_slides_with_grouping, save_metadata (AdvancedSlideCapture)         *)
(***************************************************************************)
\* f"{timestamp:.1f}": the timestamp in tenths of a second, rounded
FormatTenths(ts) == (20 * ts[1] + ts[2]) \div (2 * ts[2])

\* slide_g{group:02d}[-{sub:02d}]_t{timestamp:.1f}s_{phash[:8]}.jpg
AdvancedFilename(info) ==
    <<"slide_g", info.group_id,
      IF info.subgroup_idx > 1 THEN info.subgroup_idx ELSE 0,
      FormatTenths(info.timestamp), SubSeq(info.phash, 1, 8)>>

\* cv2.imwrite returns False when the file cannot be written, and the
\* return value is not looked at
SaveStepAdvanced ==
    /\ variant = "advanced"
    /\ pc = "save"
    /\ save_pos <= Len(final_slides)
    /\ LET k == final_slides[save_pos].info
           filename == AdvancedFilename(slides_info[k])
       IN  /\ slides_info' = [slides_info EXCEPT ![k].filename = filename]
           /\ \E written \in BOOLEAN :
                 disk' = IF written THEN disk \cup {filename} ELSE disk
           /\ saved_files' = Append(saved_files, filename)
           /\ save_pos' = save_pos + 1
    /\ UNCHANGED <<cfgVars, otherVars, impVars, pc, result, scanVars, slide_frames, grp_pos,
                   phash_to_group, current_group_id, processed_hashes,
                   final_slides, metadata_file>>

SaveDoneAdvanced ==
    /\ variant = "advanced"
    /\ pc = "save"
    /\ save_pos > Len(final_slides)
    /\ pc' = "metadata"
    /\ UNCHANGED <<cfgVars, otherVars, impVars, result, scanVars, slide_frames, grp_pos, groupVars,
                   saveVars>>

\* _generate_groups_summary
GroupsSummary ==
    [g \in {slides_info[k].group_id : k \in 1..Len(slides_info)} |->
        LET m == SelectSeq(slides_info, LAMBDA x : x.group_id = g)
        IN  [slide_count |-> Len(m),
             slides |-> [k \in 1..Len(m) |->
                            [filename |-> m[k].filename,
                             timestamp |-> m[k].timestamp,
                             subgroup_idx |-> m[k].subgroup_idx]]]]

\* the average computed without max(1, ..)
average_unguarded == <<Len(slides_info), current_group_id>>

\* generate_statistics: len(self.slides_info) / max(1, self.current_group_id),
\* a quotient <<numerator, denominator>>; a zero denominator is a
\* ZeroDivisionError, which advanced_capture turns into (False, error)
average_slides_per_group == <<Len(slides_info), Max(1, current_group_id)>>

\* save_metadata, generate_statistics and the return of advanced_capture;
\* "duration": total_frames / fps raises ZeroDivisionError when fps = 0, which
\* the except clause of advanced_capture turns into (False, error)
SaveMetadataAdvanced ==
    /\ variant = "advanced"
    /\ pc = "metadata"
    /\ pc' = "done"
    /\ IF fps = 0
       THEN /\ result' = "failure"
            /\ UNCHANGED metadata_file
       ELSE /\ metadata_file' =
                  [video_info |-> [total_frames |-> total_frames, fps |-> fps,
                                   duration |-> <<total_frames, fps>>],
                   capture_settings |->
                       [similarity_threshold |-> similarity_threshold,
                        group_threshold |-> group_threshold,
                        capture_time |-> now],
                   slides |-> slides_info,
                   groups |-> GroupsSummary]
            /\ result' = IF average_slides_per_group[2] = 0
                         THEN "failure" ELSE "success"
    /\ UNCHANGED <<cfgVars, otherVars, impVars, scanVars, slide_frames, grp_pos, groupVars,
                   save_pos, saved_files, disk>>

(***************************************************************************)
(* precise_detection (ImprovedSlideCapture)                                *)
(***************************************************************************)
edge_bound == 90

text_bound == 5

Abs(x) == IF x < 0 THEN -x ELSE x

\* the test of precise_detection reduced to the SSIM signal
IsNewSlideSsimOnly(prev, frame) ==
    RatLT(ssim(prev, frame), Pm(similarity_threshold))

\* the combined test of precise_detection against the last accepted frame
IsNewSlideImproved(prev, frame) ==
    LET ssim_score == ssim(prev, frame)
        edge_similarity == calculate_edge_diff(prev, frame)
        text_change ==
            Abs(detect_text_regions(frame) - detect_text_regions(prev))
                > text_bound
    IN  \/ RatLT(ssim_score, Pm(similarity_threshold))
        \/ RatLT(edge_similarity, <<edge_bound, 100>>)
        \/ text_change

\* the dwell test of precise_detection with half a second as the bound
DwellImprovedHalf(frame_idx, prev_idx) == 2 * (frame_idx - prev_idx) > fps

\* (frame_idx - prev_frame_idx) > self.fps
DwellImproved(frame_idx, prev_idx) == (frame_idx - prev_idx) > fps

PreciseStepImproved ==
    /\ variant = "improved"
    /\ pc = "precise"
    /\ cand_pos <= Len(candidate_frames)
    /\ LET frame_idx == candidate_frames[cand_pos]
       IN  /\ frames_read' = frames_read + 1
           /\ cand_pos' = cand_pos + 1
           /\ IF ~ReadOk(frame_idx)
              THEN UNCHANGED <<prev_frame, prev_frame_idx, slide_frames>>
              ELSE LET frame == ImageAt(frame_idx)
                       is_new_slide ==
                           \/ prev_frame = None
                           \/ (prev_frame # None
                               /\ IsNewSlideImproved(prev_frame, frame))
                   IN  IF is_new_slide /\ DwellImproved(frame_idx, prev_frame_idx)
                       THEN /\ slide_frames' = Append(slide_frames,
                                   [frame_idx |-> frame_idx, frame |-> frame])
                            /\ prev_frame' = frame
                            /\ prev_frame_idx' = frame_idx
                       ELSE UNCHANGED <<prev_frame, prev_frame_idx,
                                        slide_frames>>
    /\ UNCHANGED <<cfgVars, otherVars, impVars, pc, result, scan_i, candidate_frames,
                   grp_pos, groupVars, saveVars>>

\* precise_detection returns; supplementary_detection copies the list
PreciseDoneImproved ==
    /\ variant = "improved"
    /\ pc = "precise"
    /\ cand_pos > Len(candidate_frames)
    /\ pc' = "supp"
    /\ final_frames' = slide_frames
    /\ gap_i' = 1
    /\ check_idx' = -1
    /\ UNCHANGED <<cfgVars, otherVars, result, scanVars, slide_frames, grp_pos, groupVars,
                   saveVars, similarity_groups, unique_frames, metadata>>

(***************************************************************************)
(* supplementary_detection (ImprovedSlideCapture)                          *)
(***************************************************************************)
gap_seconds == 30

resample_seconds == 5

duplicate_bound == 95

\* gap > self.fps * 60
GapExceedsMinute(gap) == gap > fps * 60

\* gap > self.fps * 30
GapExceeds(gap) == gap > fps * gap_seconds

\* int(self.fps * 5)
ResampleStep == fps * resample_seconds

\* the window holding the two records before the re-sampled frame and the
\* two after it
LocalWindowTwoBefore ==
    {k \in 1..Len(slide_frames) : gap_i - 1 <= k /\ k <= gap_i + 2}

\* slide_frames[max(0, i-2) : min(len(slide_frames), i+3)], i = gap_i - 1
LocalWindow ==
    {k \in 1..Len(slide_frames) : gap_i - 2 <= k /\ k <= gap_i + 2}

\* is_different: no record of the window has ssim > 0.95 with the frame
IsDifferent(frame) ==
    \A k \in LocalWindow :
        ~RatGT(ssim(slide_frames[k].frame, frame), <<duplicate_bound, 100>>)

\* the head of the outer loop: the gap between record i and record i + 1
SuppGap ==
    /\ variant = "improved"
    /\ pc = "supp"
    /\ check_idx = -1
    /\ gap_i <= Len(slide_frames) - 1
    /\ LET frame_idx1 == slide_frames[gap_i].frame_idx
           frame_idx2 == slide_frames[gap_i + 1].frame_idx
           gap == frame_idx2 - frame_idx1
       IN  IF GapExceeds(gap)
           THEN IF ResampleStep = 0
                THEN \* range() with step 0 raises ValueError
                     /\ pc' = "done"
                     /\ result' = "failure"
                     /\ UNCHANGED <<gap_i, check_idx>>
                ELSE /\ check_idx' = frame_idx1 + ResampleStep
                     /\ UNCHANGED <<gap_i, pc, result>>
           ELSE /\ gap_i' = gap_i + 1
                /\ UNCHANGED <<check_idx, pc, result>>
    /\ UNCHANGED <<cfgVars, otherVars, scanVars, slide_frames, grp_pos, groupVars,
                   saveVars, final_frames, similarity_groups, unique_frames,
                   metadata>>

\* one iteration of the inner loop: the frame at check_idx
SuppCheck ==
    /\ variant = "improved"
    /\ pc = "supp"
    /\ check_idx # -1
    /\ LET frame_idx2 == slide_frames[gap_i + 1].frame_idx
       IN  IF check_idx >= frame_idx2
           THEN /\ check_idx' = -1
                /\ gap_i' = gap_i + 1
                /\ UNCHANGED <<final_frames, frames_read>>
           ELSE /\ frames_read' = frames_read + 1
                /\ final_frames' =
                      IF ReadOk(check_idx) /\ IsDifferent(ImageAt(check_idx))
                      THEN Append(final_frames,
                                  [frame_idx |-> check_idx,
                                   frame |-> ImageAt(check_idx)])
                      ELSE final_frames
                /\ check_idx' = check_idx + ResampleStep
                /\ UNCHANGED gap_i
    /\ UNCHANGED <<cfgVars, otherVars, pc, result, scan_i, prev_frame, prev_frame_idx,
                   candidate_frames, cand_pos, slide_frames, grp_pos,
                   groupVars, saveVars, similarity_groups, unique_frames,
                   metadata>>

\* the list left in the order it has
SortByFrameMissing(q) == q

\* list.sort(key=frame index): a stable sort; element i goes to the place
\* given by the number of elements that come before it
SortByFrame(q) ==
    LET Before(i) == {j \in 1..Len(q) :
                        \/ q[j].frame_idx < q[i].frame_idx
                        \/ (q[j].frame_idx = q[i].frame_idx /\ j < i)}
    IN  [n \in 1..Len(q) |->
            q[CHOOSE i \in 1..Len(q) : Cardinality(Before(i)) = n - 1]]

phash_group_bound == 900

\* the grouping loop: data[k] is the group of frame k, -1 while ungrouped;
\* frame i founds group gid and takes every later ungrouped frame whose
\* hash is more than 0.9 similar to its own
\* the founder takes every later similar frame, grouped or not
RECURSIVE MarkGroupOverwrite(_, _, _, _, _)
MarkGroupOverwrite(hashes, data, i, gid, j) ==
    IF j > Len(hashes) THEN <<>>
    ELSE <<(IF j = i THEN gid
            ELSE IF /\ j > i
                    /\ RatGT(calculate_phash_similarity(hashes[i], hashes[j]),
                             Pm(phash_group_bound))
                 THEN gid
                 ELSE data[j])>>
         \o MarkGroupOverwrite(hashes, data, i, gid, j + 1)

RECURSIVE MarkGroup(_, _, _, _, _)
MarkGroup(hashes, data, i, gid, j) ==
    IF j > Len(hashes) THEN <<>>
    ELSE <<(IF j = i THEN gid
            ELSE IF /\ j > i
                    /\ data[j] = -1
                    /\ RatGT(calculate_phash_similarity(hashes[i], hashes[j]),
                             Pm(phash_group_bound))
                 THEN gid
                 ELSE data[j])>>
         \o MarkGroup(hashes, data, i, gid, j + 1)

\* the outer loop from frame i on, left after frame last
RECURSIVE GroupFramesUpTo(_, _, _, _, _)
GroupFramesUpTo(hashes, data, i, gid, last) ==
    IF i > last THEN data
    ELSE IF data[i] # -1 THEN GroupFramesUpTo(hashes, data, i + 1, gid, last)
    ELSE CHOOSE r \in {GroupFramesUpTo(hashes, d, i + 1, gid + 1, last) :
                          d \in {MarkGroup(hashes, data, i, gid, 1)}} : TRUE

\* the whole outer loop
GroupFrames(hashes, data, i, gid) ==
    GroupFramesUpTo(hashes, data, i, gid, Len(hashes))

\* among the sharpest members, the first one that is not yet in
\* unique_frames, and the first one if all are
BestFrameFresh(members) ==
    LET top == {i \in 1..Len(members) :
                  \A j \in 1..Len(members) :
                     Sharpness(members[j].frame) <= Sharpness(members[i].frame)}
        fresh == {i \in top :
                    \A k \in 1..Len(unique_frames) :
                       unique_frames[k].frame_idx # members[i].frame_idx}
        pool == IF fresh = {} THEN top ELSE fresh
    IN  members[CHOOSE i \in pool : \A j \in pool : i <= j]

\* the selection keeping the first member of the group
BestFrameFirst(members) == members[1]

\* max(group_frames, key=sharpness): the first member of maximal sharpness
BestFrame(members) ==
    LET k == CHOOSE i \in 1..Len(members) :
                /\ \A j \in 1..Len(members) :
                      Sharpness(members[j].frame) <= Sharpness(members[i].frame)
                /\ \A j \in 1..(i - 1) :
                      Sharpness(members[j].frame) < Sharpness(members[i].frame)
    IN  members[k]

\* the rest of supplementary_detection, which reads no frame: sort, hash,
\* group, keep one frame per group, sort
\* the hashes of the frames of a list
HashesOf(frames) ==
    [k \in 1..Len(frames) |-> calculate_phash(frames[k].frame)]

\* frame_data after the grouping loop
FrameData(frames, hashes, data) ==
    [k \in 1..Len(frames) |->
        [frame_idx |-> frames[k].frame_idx, frame |-> frames[k].frame,
         phash |-> hashes[k], group |-> data[k]]]

\* groups[g]: the frames of group g, in list order
GroupFramesOf(frame_data, g) == SelectSeq(frame_data, LAMBDA d : d.group = g)

\* unique_frames before the last sort: one frame per group, by group id
PickedFrames(frame_data) ==
    LET gids == SortedSeq({frame_data[k].group : k \in 1..Len(frame_data)})
    IN  [n \in 1..Len(gids) |->
            LET b == BestFrame(GroupFramesOf(frame_data, gids[n]))
            IN  [frame_idx |-> b.frame_idx, frame |-> b.frame]]

\* self.similarity_groups: the groups of more than one frame
SimilarityGroups(frame_data) ==
    LET gids == SortedSeq({frame_data[k].group : k \in 1..Len(frame_data)})
        multi == SelectSeq(gids,
                           LAMBDA g : Len(GroupFramesOf(frame_data, g)) > 1)
    IN  [n \in 1..Len(multi) |->
            <<multi[n],
              [k \in 1..Len(GroupFramesOf(frame_data, multi[n])) |->
                  <<GroupFramesOf(frame_data, multi[n])[k].frame_idx,
                    GroupFramesOf(frame_data, multi[n])[k].phash>>]>>]

\* the rest of supplementary_detection, which reads no frame: sort, hash,
\* group, keep one frame per group, sort
SuppGroupSelect ==
    /\ variant = "improved"
    /\ pc = "supp"
    /\ check_idx = -1
    /\ gap_i > Len(slide_frames) - 1
    /\ \E sorted \in {SortByFrame(final_frames)} :
       \E hashes \in {HashesOf(sorted)} :
       \E data \in {GroupFrames(hashes, [k \in 1..Len(sorted) |-> -1], 1, 0)} :
       \E frame_data \in {FrameData(sorted, hashes, data)} :
          /\ final_frames' = sorted
          /\ similarity_groups' = SimilarityGroups(frame_data)
          \* sorted before the return, and once more by save_slides
          /\ unique_frames' = SortByFrame(SortByFrame(PickedFrames(frame_data)))
    /\ pc' = "save"
    /\ save_pos' = 1
    /\ UNCHANGED <<cfgVars, otherVars, result, scanVars, slide_frames, grp_pos, groupVars,
                   saved_files, disk, metadata_file, gap_i, check_idx,
                   metadata>>

(***************************************************************************)
(* save_slides (ImprovedSlideCapture)                                      *)
(***************************************************************************)
\* frame_to_group.get(frame_idx, -1): the last group listing the frame
FrameToGroup(frame_idx) ==
    LET hits == {n \in 1..Len(similarity_groups) :
                    \E k \in 1..Len(similarity_groups[n][2]) :
                        similarity_groups[n][2][k][1] = frame_idx}
    IN  IF hits = {} THEN -1
        ELSE similarity_groups[CHOOSE n \in hits : \A m \in hits : m <= n][1]

\* self.similarity_groups.get(group_id, [])
SimilarFrames(group_id) ==
    LET hits == {n \in 1..Len(similarity_groups) :
                    similarity_groups[n][1] = group_id}
    IN  IF hits = {} THEN <<>>
        ELSE similarity_groups[CHOOSE n \in hits : TRUE][2]

\* slide_{idx+1:03d}_t{minutes}m{seconds:.1f}s[_g{group:02d}]_h{phash[:8]}.jpg
\* with minutes = int(timestamp / 60) and seconds = timestamp % 60
ImprovedFilename(idx, frame_idx, group_id, phash) ==
    LET minutes == frame_idx \div (60 * fps)
    IN  <<"slide_", idx, minutes,
          FormatTenths(<<frame_idx - 60 * fps * minutes, fps>>),
          group_id, SubSeq(phash, 1, 8)>>

SaveStepImproved ==
    /\ variant = "improved"
    /\ pc = "save"
    /\ save_pos <= Len(unique_frames)
    /\ IF fps = 0
       THEN \* timestamp = frame_idx / self.fps raises ZeroDivisionError
            /\ pc' = "done"
            /\ result' = "failure"
            /\ UNCHANGED <<save_pos, saved_files, disk, metadata>>
       ELSE LET frame_idx == unique_frames[save_pos].frame_idx
                phash == calculate_phash(unique_frames[save_pos].frame)
                group_id == FrameToGroup(frame_idx)
                filename == ImprovedFilename(save_pos, frame_idx, group_id, phash)
            IN  /\ \E written \in BOOLEAN :
                      disk' = IF written THEN disk \cup {filename} ELSE disk
                /\ saved_files' = Append(saved_files, filename)
                /\ metadata' = Append(metadata,
                       [index |-> save_pos, filename |-> filename,
                        frame_index |-> frame_idx,
                        timestamp |-> <<frame_idx, fps>>,
                        phash |-> phash, group_id |-> group_id,
                        similar_frames |-> SimilarFrames(group_id)])
                /\ save_pos' = save_pos + 1
                /\ UNCHANGED <<pc, result>>
    /\ UNCHANGED <<cfgVars, otherVars, scanVars, slide_frames, grp_pos, groupVars,
                   metadata_file, final_frames, gap_i, check_idx,
                   similarity_groups, unique_frames>>

\* the metadata file is written after the loop, and multi_strategy_capture
\* returns (True, ...)
SaveDoneImproved ==
    /\ variant = "improved"
    /\ pc = "save"
    /\ save_pos > Len(unique_frames)
    /\ metadata_file' =
          [total_frames |-> total_frames, fps |-> fps,
           threshold |-> similarity_threshold,
           slides |-> metadata,
           similarity_groups |-> similarity_groups]
    /\ pc' = "done"
    /\ result' = "success"
    /\ UNCHANGED <<cfgVars, otherVars, impVars, scanVars, slide_frames, grp_pos,
                   groupVars, save_pos, saved_files, disk>>

(***************************************************************************)
(* Runs of capture_slides_advanced                                         *)
(***************************************************************************)
\* frames the videos of the runs are cut from
Frames ==
    {Solid(0), Solid(20), Solid(40), Picture(30, 1), Picture(30, 2),
     Picture(30, 3)}

\* a 100-frame file at 10 fps with one cut (frames 0-49, 50-99) or two cuts,
\* read without error or with frames 30 and 55 unreadable; and a file that
\* cannot be opened (0 frames, fps 0)
VideoFiles ==
    {[total_frames |-> 100, fps |-> 10, cut1 |-> 50, cut2 |-> 100,
      img1 |-> a, img2 |-> b, img3 |-> b, bad |-> bad,
      lead |-> <<>>] :
        a \in Frames, b \in Frames, bad \in {{}, {30, 55}}}
    \cup
    {[total_frames |-> 100, fps |-> 10, cut1 |-> 20, cut2 |-> 70,
      img1 |-> a, img2 |-> b, img3 |-> c, bad |-> bad,
      lead |-> <<>>] :
        a \in Frames, b \in Frames, c \in Frames, bad \in {{}, {30, 55}}}
    \cup
    {[total_frames |-> 0, fps |-> 0, cut1 |-> 0, cut2 |-> 0,
      img1 |-> Solid(0), img2 |-> Solid(0), img3 |-> Solid(0), bad |-> {},
      lead |-> <<>>]}

\* <<similarity_threshold, group_threshold>> in thousandths, as passed by the
\* caller: the default, the two other settings of the test script, and
\* settings outside (0,1) or with group_threshold < similarity_threshold
Configs ==
    {<<850, 900>>, <<750, 850>>, <<900, 950>>,
     <<950, 900>>, <<1500, 900>>, <<850, 0>>}

ConfigValid ==
    /\ 0 < similarity_threshold /\ similarity_threshold < 1000
    /\ 0 < group_threshold /\ group_threshold < 1000
    /\ group_threshold >= similarity_threshold

\* a run of a class on one of the files, whose frame rate is fps / den
InitRunAt(class, files, configs, den) ==
    /\ OtherIdle
    /\ variant = class
    /\ \E v \in files :
          /\ video = [cut1 |-> v.cut1, cut2 |-> v.cut2, img1 |-> v.img1,
                      img2 |-> v.img2, img3 |-> v.img3, bad |-> v.bad,
                      lead |-> v.lead]
          /\ total_frames = v.total_frames
          /\ fps = v.fps
          /\ fps_den = den
    /\ \E c \in configs :
          /\ similarity_threshold = c[1]
          /\ group_threshold = c[2]
    /\ pc = "start"
    /\ result = "none"
    /\ scan_i = 0
    /\ prev_frame = None
    /\ prev_frame_idx = -1
    /\ candidate_frames = <<>>
    /\ cand_pos = 1
    /\ slide_frames = <<>>
    /\ grp_pos = 1
    /\ slides_info = <<>>
    /\ phash_to_group = <<>>
    /\ current_group_id = 0
    /\ processed_hashes = {}
    /\ final_slides = <<>>
    /\ save_pos = 1
    /\ saved_files = <<>>
    /\ disk = {}
    /\ metadata_file = None
    /\ frames_read = 0
    /\ final_frames = <<>>
    /\ gap_i = 1
    /\ check_idx = -1
    /\ similarity_groups = <<>>
    /\ unique_frames = <<>>
    /\ metadata = <<>>

\* a run on a file of a whole number of frames per second
InitRun(class, files, configs) == InitRunAt(class, files, configs, 1)

\* frames and files of the runs of capture_slides_improved: 100 frames at
\* 1 fps, so that a gap of more than 30 seconds fits; two files show three
\* slides of which the last has a pHash close to those of both others, and
\* is less sharp than the first in one file and sharper in the other
FramesImproved ==
    {Solid(0), Picture(30, 1), Picture(40, 6), Picture(30, 3), Picture(50, 8)}

VideoFilesImproved ==
    {[total_frames |-> 100, fps |-> 1, cut1 |-> 50, cut2 |-> 100,
      img1 |-> a, img2 |-> b, img3 |-> b, bad |-> bad,
      lead |-> <<>>] :
        a \in FramesImproved, b \in FramesImproved, bad \in {{}, {30, 55}}}
    \cup
    {[total_frames |-> 100, fps |-> 1, cut1 |-> 20, cut2 |-> 70,
      img1 |-> a, img2 |-> b, img3 |-> c, bad |-> bad,
      lead |-> <<>>] :
        a \in FramesImproved, b \in FramesImproved, c \in FramesImproved,
        bad \in {{}, {30, 55}}}
    \cup
    {[total_frames |-> 100, fps |-> 1, cut1 |-> 20, cut2 |-> 70,
      img1 |-> Picture(30, 1), img2 |-> Picture(40, 10),
      img3 |-> c, bad |-> {},
      lead |-> <<>>] : c \in {Picture(50, 9), Picture(50, 3)}}
    \cup
    {[total_frames |-> 0, fps |-> 0, cut1 |-> 0, cut2 |-> 0,
      img1 |-> Solid(0), img2 |-> Solid(0), img3 |-> Solid(0), bad |-> {},
      lead |-> <<>>]}

\* ImprovedSlideCapture has one threshold
ConfigsImproved == {<<850, 900>>, <<950, 900>>}

Init ==
    \/ InitRun("advanced", VideoFiles, Configs)
    \/ InitRun("improved", VideoFilesImproved, ConfigsImproved)

Next ==
    \/ Start
    \/ FastScanStep
    \/ FastScanDone
    \/ PreciseStepAdvanced
    \/ PreciseDoneAdvanced
    \/ GroupStep
    \/ GroupDone
    \/ SaveStepAdvanced
    \/ SaveDoneAdvanced
    \/ SaveMetadataAdvanced
    \/ PreciseStepImproved
    \/ PreciseDoneImproved
    \/ SuppGap
    \/ SuppCheck
    \/ SuppGroupSelect
    \/ SaveStepImproved
    \/ SaveDoneImproved

Spec == Init /\ [][Next]_vars

(***************************************************************************)
(* Properties of the whole run                                             *)
(***************************************************************************)
\* strictly ascending timestamps and pairwise distinct frame indices of a
\* sequence of <<frame index, timestamp>> pairs
StrictlyAscending(q) ==
    \A i, j \in 1..Len(q) :
        i < j => /\ TsLess(q[i][2], q[j][2])
                 /\ q[i][1] # q[j][1]

EmittedAdvanced ==
    [k \in 1..Len(slides_info) |->
        <<slides_info[k].frame_idx, slides_info[k].timestamp>>]

EmittedImproved ==
    [k \in 1..Len(metadata) |->
        <<metadata[k].frame_index, metadata[k].timestamp>>]

\* C2: the emitted slide list of either class is strictly ascending in
\* timestamp and no frame index occurs twice in it; the frames the gap filler
\* adds are merged in order, and the frames handed to save_slides are
\* ascending in frame index
C2_EmittedAscending ==
    /\ StrictlyAscending(EmittedAdvanced)
    /\ StrictlyAscending(EmittedImproved)
    /\ pc \in {"save", "done"} =>
          \A i, j \in 1..Len(unique_frames) :
              i < j => unique_frames[i].frame_idx < unique_frames[j].frame_idx
    /\ metadata_file # None => 
          \A i, j \in 1..Len(metadata_file.slides) :
              i < j => TsLess(metadata_file.slides[i].timestamp,
                              metadata_file.slides[j].timestamp)

\* a finished run of the improved class with three emitted slides, one of
\* them a frame the gap filler added between two accepted frames
C2_Witness ==
    /\ variant = "improved"
    /\ pc = "done"
    /\ result = "success"
    /\ Len(metadata) >= 3
    /\ \E k \in 2..Len(metadata) - 1 :
          \A n \in 1..Len(slide_frames) :
              slide_frames[n].frame_idx # metadata[k].frame_index

\* Scenario A: 10 s at 10 fps, the first 5 s one solid colour, the last 5 s
\* another, default thresholds, every frame readable
ScenarioA ==
    /\ variant = "advanced"
    /\ total_frames = 100
    /\ fps = 10
    /\ video.cut1 = 50
    /\ video.cut2 = 100
    /\ video.img1.pic = 0
    /\ video.img2.pic = 0
    /\ video.img1 # video.img2
    /\ video.bad = {}
    /\ similarity_threshold = 850
    /\ group_threshold = 900

\* C5: in Scenario A the finished run has emitted exactly two slide records,
\* in two different groups
C5_ScenarioATwoSlides ==
    (ScenarioA /\ pc = "done") =>
        /\ result = "success"
        /\ Len(slides_info) = 2
        /\ current_group_id = 2
        /\ slides_info[1].group_id # slides_info[2].group_id

\* C7: a run on a readable video in which the scan found no candidate frame
\* ends in success, with no slide file and a metadata file whose slide list
\* is empty
C7_EmptyResultSucceeds ==
    (pc = "done" /\ fps > 0 /\ candidate_frames = <<>>) =>
        /\ result = "success"
        /\ saved_files = <<>>
        /\ disk = {}
        /\ metadata_file # None
        /\ metadata_file.slides = <<>>

\* a finished run of the advanced class on a video that never changes
C7_Witness ==
    /\ variant = "advanced"
    /\ pc = "done"
    /\ fps > 0
    /\ total_frames > 0
    /\ candidate_frames = <<>>
    /\ slide_frames = <<>>
    /\ result = "success"

\* C8: emission is all-or-nothing: every slide the metadata file lists has
\* its image on disk
C8_MetadataListsPersisted ==
    metadata_file # None =>
        \A k \in 1..Len(metadata_file.slides) :
            metadata_file.slides[k].filename \in disk

\* C9: an invalid configuration is reported before any frame is read: no
\* frame is read, nothing is written, and the run does not succeed
C9_InvalidConfigFailsFast ==
    (variant = "advanced" /\ ~ConfigValid) =>
        /\ frames_read = 0
        /\ disk = {}
        /\ metadata_file = None
        /\ result # "success"

\* the frame the next step of the scan or of the precise detector reads
\* cannot be decoded
ScanReadFails == pc = "fast_scan" /\ scan_i < total_frames /\ ~ReadOk(scan_i)

PreciseReadFails ==
    /\ pc = "precise"
    /\ cand_pos <= Len(candidate_frames)
    /\ ~ReadOk(candidate_frames[cand_pos])

\* C10: a frame that cannot be decoded is skipped: the reference frame, the
\* candidates and the accepted frames stay as they are, the loop moves on to
\* the next position, the run is not failed, and both loops run to the end of
\* their input before the next stage starts
C10_DecodeErrorSkipped ==
    [][/\ ScanReadFails =>
             /\ prev_frame' = prev_frame
             /\ candidate_frames' = candidate_frames
             /\ scan_i' = scan_i + ScanStep(total_frames)
             /\ pc' = pc
             /\ result' = "none"
       /\ PreciseReadFails =>
             /\ prev_frame' = prev_frame
             /\ prev_frame_idx' = prev_frame_idx
             /\ slide_frames' = slide_frames
             /\ cand_pos' = cand_pos + 1
             /\ pc' = pc
             /\ result' = "none"
       /\ (pc = "fast_scan" /\ pc' # pc) => scan_i >= total_frames
       /\ (pc = "precise" /\ pc' # pc) => cand_pos > Len(candidate_frames)]_vars

\* the precise detector has skipped an undecodable candidate after it had
\* accepted a frame, and has gone on to accept a later one
C10_Witness ==
    /\ pc = "precise"
    /\ Len(slide_frames) >= 2
    /\ \E k \in 1..cand_pos - 1 :
          /\ candidate_frames[k] \in video.bad
          /\ slide_frames[1].frame_idx < candidate_frames[k]
          /\ candidate_frames[k] < slide_frames[Len(slide_frames)].frame_idx
(***************************************************************************)
(* supplementary_detection entered with two accepted frames 40 s apart     *)
(***************************************************************************)
\* frame indices of the two frames precise_detection accepted (1 fps)
AcceptedAt == <<10, 50>>

first_idx == AcceptedAt[1]

second_idx == AcceptedAt[2]

\* where the middle slide comes on screen and where it leaves it
CutsIn == {11, 15, 16, 21, 33, 46}

CutsOut == {16, 20, 21, 31, 45, 46, 50}

\* the state in which multi_strategy_capture calls supplementary_detection:
\* precise_detection has returned the frames at first_idx and second_idx,
\* the second one new with respect to the first
InitSupp ==
    /\ OtherIdle
    /\ variant = "improved"
    /\ similarity_threshold = 850
    /\ group_threshold = 900
    /\ total_frames = 100
    /\ fps = 1
    /\ fps_den = 1
    /\ \E a \in FramesImproved, b \in FramesImproved, c \in FramesImproved :
       \E c1 \in CutsIn, c2 \in CutsOut :
          /\ c1 < c2
          /\ a # c
          /\ IsNewSlideImproved(a, c)
          /\ video = [cut1 |-> c1, cut2 |-> c2, img1 |-> a, img2 |-> b,
                      img3 |-> c, bad |-> {}, lead |-> <<>>]
          /\ slide_frames = <<[frame_idx |-> first_idx, frame |-> a],
                              [frame_idx |-> second_idx, frame |-> c]>>
          /\ prev_frame = c
    /\ prev_frame_idx = second_idx
    /\ final_frames = slide_frames
    /\ pc = "supp"
    /\ result = "none"
    /\ scan_i = 120
    /\ candidate_frames = <<first_idx, second_idx>>
    /\ cand_pos = 3
    /\ grp_pos = 1
    /\ slides_info = <<>>
    /\ phash_to_group = <<>>
    /\ current_group_id = 0
    /\ processed_hashes = {}
    /\ final_slides = <<>>
    /\ save_pos = 1
    /\ saved_files = <<>>
    /\ disk = {}
    /\ metadata_file = None
    /\ frames_read = 6
    /\ gap_i = 1
    /\ check_idx = -1
    /\ similarity_groups = <<>>
    /\ unique_frames = <<>>
    /\ metadata = <<>>

NextSupp ==
    \/ SuppGap
    \/ SuppCheck
    \/ SuppGroupSelect
    \/ SaveStepImproved
    \/ SaveDoneImproved

SpecSupp == InitSupp /\ [][NextSupp]_vars

\* slide 2 differs from an accepted frame by the measure of the precise
\* detector
Dissimilar(a, b) == RatLT(ssim(a, b), Pm(similarity_threshold))

\* slide 2 is not a duplicate of an accepted frame by the measure of the gap
\* filler
NotDuplicate(a, b) == ~RatGT(ssim(a, b), <<duplicate_bound, 100>>)

\* supplementary_detection has returned its list
SuppReturned == variant = "improved" /\ pc \in {"save", "done"}

ExactlyThreeWithSlide2 ==
    /\ Len(unique_frames) = 3
    /\ \E k \in 1..3 : unique_frames[k].frame = video.img2

\* C6 as stated: in Scenario C, with slide 2 dissimilar to slide 1 and to
\* slide 3, the list supplementary_detection returns has exactly three
\* records, one of them showing slide 2
C6_GapFillerRecoversSlide2 ==
    (/\ SuppReturned
     /\ Dissimilar(video.img2, video.img1)
     /\ Dissimilar(video.img2, video.img3)) => ExactlyThreeWithSlide2

\* slide 2 is on screen at one of the frames the gap filler reads
OnScreenAtResample ==
    \E n \in 1..total_frames :
        /\ first_idx + n * ResampleStep < second_idx
        /\ video.cut1 <= first_idx + n * ResampleStep
        /\ first_idx + n * ResampleStep < video.cut2

\* the pHashes of two slides are not merged by the grouping of
\* supplementary_detection
HashApart(a, b) ==
    ~RatGT(calculate_phash_similarity(calculate_phash(a), calculate_phash(b)),
           <<phash_group_bound, 1000>>)

\* C6 amended: in Scenario C, when slide 2 is not a duplicate (SSIM at most
\* 0.95) of slide 1 or of slide 3, is on screen at one of the frames read
\* every 5 seconds inside the gap, and the pHashes of the three slides are
\* pairwise at most 0.9 similar, the list supplementary_detection returns has
\* exactly three records, one of them showing slide 2
C6_RecoversSampledDistinctSlide2 ==
    (/\ SuppReturned
     /\ NotDuplicate(video.img2, video.img1)
     /\ NotDuplicate(video.img2, video.img3)
     /\ OnScreenAtResample
     /\ HashApart(video.img1, video.img2)
     /\ HashApart(video.img2, video.img3)
     /\ HashApart(video.img1, video.img3)) => ExactlyThreeWithSlide2

\* the gap filler has recovered slide 2 and the three records are emitted
C6_Witness ==
    /\ variant = "improved"
    /\ pc = "done"
    /\ NotDuplicate(video.img2, video.img1)
    /\ NotDuplicate(video.img2, video.img3)
    /\ OnScreenAtResample
    /\ HashApart(video.img1, video.img2)
    /\ HashApart(video.img2, video.img3)
    /\ HashApart(video.img1, video.img3)
    /\ Len(slide_frames) = 2
    /\ Len(metadata) = 3
    /\ first_idx < metadata[2].frame_index
    /\ metadata[2].frame_index < second_idx
(***************************************************************************)
(* capture_slides_from_video (video_audio_processor.py): one pass, one     *)
(* frame per sample_interval seconds                                       *)
(***************************************************************************)
sample_interval == 1

min_saved_gap == 2

duplicate_distance == 5

\* a / b - c / d
RatSub(x, y) == <<x[1] * y[2] - y[1] * x[2], x[2] * y[2]>>

\* bin(int(phash, 16) ^ int(stored_hash, 16)).count('1')
XorDistance(h1, h2) ==
    LET n == Max(Len(h1), Len(h2))
    IN  SumDiff(PadLeft(h1, n), PadLeft(h2, n), n)

\* the loop over frame_hashes.values()
IsDuplicate(phash) ==
    \E k \in 1..Len(frame_hashes) :
        XorDistance(phash, frame_hashes[k][2]) < duplicate_distance

\* slide_{saved_count:03d}_t{minutes}m{seconds:.1f}s_h{phash[:8]}.jpg, of the
\* time pos / fps
StandardFilename(idx, pos, phash) ==
    LET minutes == pos \div (60 * fps)
    IN  <<"slide_", idx, minutes,
          FormatTenths(<<pos - 60 * fps * minutes, fps>>), SubSeq(phash, 1, 8)>>

\* VideoCapture, isOpened, fps, frame_count, duration = frame_count / fps
StdOpen ==
    /\ variant = "standard"
    /\ pc = "start"
    /\ IF total_frames = 0 \/ fps = 0
       THEN \* not opened, or ZeroDivisionError caught by the except clause
            /\ pc' = "done"
            /\ result' = "failure"
       ELSE /\ pc' = "loop"
            /\ UNCHANGED result
    /\ frame_pos' = 0
    /\ prev_frame' = None
    /\ saved_count' = 0
    /\ last_saved_time' = <<-1000, 1>>
    /\ slides_data' = <<>>
    /\ frame_hashes' = <<>>
    /\ UNCHANGED <<cfgVars, now, first_run, callVars, reselected, toolVars,
                   impVars, scan_i, prev_frame_idx,
                   candidate_frames, cand_pos, frames_read, slide_frames,
                   grp_pos, groupVars, saveVars>>

\* the loop leaves at a failed read: if not ret: break
StdReadFailed ==
    /\ pc' = "finish"
    /\ UNCHANGED <<frame_pos, prev_frame, saved_count, last_saved_time,
                   slides_data, frame_hashes, disk>>

\* the iterations of the while loop that the model counts: the counter of a
\* loop that goes on stays at this number
MaxReads == 12

\* int(fps * sample_interval): the conversion rounds towards zero
StdStride == (fps * sample_interval) \div fps_den

\* one iteration of the while loop
StdStep ==
    /\ variant = "standard"
    /\ pc = "loop"
    /\ frames_read' = Min(frames_read + 1, MaxReads)
    /\ IF ~ReadOk(frame_pos)
       THEN StdReadFailed
       ELSE LET frame == ImageAt(frame_pos)
                \* frame_idx / fps
                current_time == <<frame_pos * fps_den, fps>>
                changed ==
                    \/ prev_frame = None
                    \/ /\ prev_frame # None
                       /\ RatGE(RatSub(current_time, last_saved_time),
                                <<min_saved_gap, 1>>)
                       /\ RatLT(ssim(prev_frame, frame),
                                Pm(similarity_threshold))
                phash == calculate_phash(frame)
                filename == StandardFilename(saved_count,
                                            frame_pos * fps_den, phash)
            IN  /\ IF changed /\ ~IsDuplicate(phash)
                   THEN /\ \E written \in BOOLEAN :
                              disk' = IF written THEN disk \cup {filename}
                                      ELSE disk
                        /\ frame_hashes' =
                              Append(frame_hashes, <<frame_pos, phash>>)
                        /\ slides_data' = Append(slides_data,
                              [index |-> saved_count, filename |-> filename,
                               frame_index |-> frame_pos,
                               timestamp |-> current_time, phash |-> phash])
                        /\ saved_count' = saved_count + 1
                        /\ last_saved_time' = current_time
                        /\ prev_frame' = frame
                   ELSE UNCHANGED <<disk, frame_hashes, slides_data,
                                    saved_count, last_saved_time, prev_frame>>
                /\ frame_pos' = frame_pos + StdStride
                /\ pc' = IF frame_pos' >= total_frames THEN "finish"
                         ELSE "loop"
    /\ UNCHANGED <<cfgVars, now, first_run, callVars, reselected, toolVars,
                   impVars, result, scan_i,
                   prev_frame_idx, candidate_frames, cand_pos, slide_frames,
                   grp_pos, groupVars, save_pos, saved_files, metadata_file>>

\* cap.release(), the metadata file if a slide was saved, return True
StdFinish ==
    /\ variant = "standard"
    /\ pc = "finish"
    /\ pc' = "done"
    /\ result' = "success"
    /\ metadata_file' =
          IF saved_count > 0
          THEN [total_frames |-> total_frames, fps |-> <<fps, fps_den>>,
                threshold |-> similarity_threshold, slides |-> slides_data]
          ELSE metadata_file
    /\ UNCHANGED <<cfgVars, otherVars, impVars, scanVars, slide_frames,
                   grp_pos, groupVars, save_pos, saved_files, disk>>

\* similarity_threshold of capture_slides_from_video: the default
ConfigsStd == {<<800, 900>>}

InitStd == InitRun("standard", VideoFiles, ConfigsStd)

NextStd ==
    \/ StdOpen
    \/ StdStep
    \/ StdFinish

SpecStd == InitStd /\ [][NextStd]_vars

\* the sample points of the run
SamplePoints ==
    {n \in 0..(total_frames - 1) : n % (fps * sample_interval) = 0}

\* C11: when the read of a sample frame fails in capture_slides_from_video,
\* the scan goes on with the next sample point: the finished run has read
\* every sample point up to the end of the video, and a second slide that
\* comes on screen after the unreadable frame, and is new by SSIM and by
\* pHash, is among the saved slides
C11_ScanContinuesAfterDecodeError ==
    (variant = "standard" /\ pc = "done" /\ result = "success") =>
        /\ frame_pos >= total_frames
        /\ frames_read = Cardinality(SamplePoints)
        /\ (/\ video.cut2 >= total_frames
            /\ \E b \in SamplePoints : b < video.cut1 /\ ~ReadOk(b)
            /\ \E n \in SamplePoints : n >= video.cut1 /\ ReadOk(n)
            /\ RatLT(ssim(video.img1, video.img2), Pm(similarity_threshold))
            /\ XorDistance(calculate_phash(video.img1),
                           calculate_phash(video.img2)) >= duplicate_distance)
           => \E k \in 1..Len(slides_data) :
                 slides_data[k].frame_index >= video.cut1

(***************************************************************************)
(* capture_slides_from_video on files of a fractional frame rate           *)
(***************************************************************************)
\* files of 1/2, 1, 3/2 and 2 frames per second (fps here is the numerator
\* over 2): 6 or 9 frames, a second slide from frame 3 on, every frame
\* readable or not
SlowVideoFiles ==
    {[total_frames |-> n, fps |-> r, cut1 |-> 3, cut2 |-> n,
      img1 |-> a, img2 |-> b, img3 |-> b, bad |-> bad, lead |-> <<>>] :
        n \in {6, 9}, r \in 1..4, a \in {Solid(20), Picture(30, 1)},
        b \in {Solid(40), Picture(30, 3)}, bad \in {{}, {4}}}

InitSlow == InitRunAt("standard", SlowVideoFiles, ConfigsStd, 2)

\* the interpreter goes on with the loop and the return while it can
SpecSlow == InitSlow /\ [][NextStd]_vars /\ WF_vars(NextStd)

\* C28: capture_slides_from_video returns for every video that opens, has a
\* finite number of frames and a frame rate above 0, rates below 1 frame
\* per second included
C28_StandardScanTerminates ==
    <>(variant = "standard" /\ pc = "done")

(***************************************************************************)
(* the three entry points: capture_slides_from_video,                      *)
(* capture_slides_advanced and capture_slides_improved                     *)
(***************************************************************************)
InitEntry == Init \/ InitStd

\* the steps of the class that the entry point has built, or of the function
NextEntry ==
    \/ Next
    \/ NextStd

SpecEntry == InitEntry /\ [][NextEntry]_vars

\* VideoCapture could not open the file: 0 frames at 0 frames per second
Unopenable == total_frames = 0 /\ fps = 0

\* C29: when the video file cannot be opened, each of the three entry points
\* returns success = False, and no slides_metadata.json has been written
C29_UnopenableIsFailure ==
    (Unopenable /\ pc = "done") =>
        (result = "failure" /\ metadata_file = None)

(***************************************************************************)
(* capture_slides_advanced called a second time on the same video          *)
(***************************************************************************)
\* how long after the first call the second one writes its metadata
Delays == {0, 1, 3600}

\* the first run has returned; a new AdvancedSlideCapture is built on the
\* same video with the same thresholds and output folder, and
\* advanced_capture starts again
RunAgain ==
    /\ variant = "advanced"
    /\ pc = "done"
    /\ first_run = None
    /\ metadata_file # None
    /\ first_run' = metadata_file
    /\ \E d \in Delays : now' = now + d
    /\ pc' = "start"
    /\ result' = "none"
    /\ scan_i' = 0
    /\ prev_frame' = None
    /\ prev_frame_idx' = -1
    /\ candidate_frames' = <<>>
    /\ cand_pos' = 1
    /\ slide_frames' = <<>>
    /\ grp_pos' = 1
    /\ slides_info' = <<>>
    /\ phash_to_group' = <<>>
    /\ current_group_id' = 0
    /\ processed_hashes' = {}
    /\ final_slides' = <<>>
    /\ save_pos' = 1
    /\ saved_files' = <<>>
    /\ frames_read' = 0
    /\ UNCHANGED <<cfgVars, stdVars, callVars, reselected, toolVars, impVars, disk,
                   metadata_file>>

\* the default thresholds and the two other settings of the test script
ConfigsTwice == {<<850, 900>>, <<750, 850>>, <<900, 950>>}

InitTwice == InitRun("advanced", VideoFiles, ConfigsTwice)

NextTwice ==
    \/ Start
    \/ FastScanStep
    \/ FastScanDone
    \/ PreciseStepAdvanced
    \/ PreciseDoneAdvanced
    \/ GroupStep
    \/ GroupDone
    \/ SaveStepAdvanced
    \/ SaveDoneAdvanced
    \/ SaveMetadataAdvanced
    \/ RunAgain

SpecTwice == InitTwice /\ [][NextTwice]_vars

\* C12: the metadata file a second run of capture_slides_advanced writes for
\* the same video and thresholds has the content the first run wrote,
\* whenever the second run is started
C12_MetadataDeterministic ==
    (/\ variant = "advanced"
     /\ first_run # None
     /\ pc = "done"
     /\ result = "success") => metadata_file = first_run
(***************************************************************************)
(* hash_similarity and calculate_phash_similarity called on two hex        *)
(* strings                                                                 *)
(***************************************************************************)
MaxHashLen == 3

\* the hex digits the strings are made of
HexDigits == {0, 1, 10, 15}

HexStrings == UNION {[1..n -> HexDigits] : n \in 1..MaxHashLen}

\* what a call did: it raised an exception, or it returned a value
Raised == [called |-> TRUE, raised |-> TRUE, value |-> <<0, 1>>]

Returned(v) == [called |-> TRUE, raised |-> FALSE, value |-> v]

\* int(h, 16) raises ValueError on the empty string; the division by
\* len(hash1) * 4 raises ZeroDivisionError when hash1 is empty
CallResult(arg1, arg2, v) ==
    IF Len(arg1) = 0 \/ Len(arg2) = 0 THEN Raised ELSE Returned(v)

CallHashSimilarity ==
    /\ pc = "call"
    /\ ~adv_similarity.called
    /\ adv_similarity' =
          CallResult(hash_a, hash_b, hash_similarity(hash_a, hash_b))
    /\ UNCHANGED <<cfgVars, stdVars, now, first_run, hash_a, hash_b,
                   imp_similarity, reselected, toolVars, impVars, pc, result, scanVars,
                   slide_frames, grp_pos, groupVars, saveVars>>

CallPhashSimilarity ==
    /\ pc = "call"
    /\ ~imp_similarity.called
    /\ imp_similarity' =
          CallResult(hash_a, hash_b,
                     calculate_phash_similarity(hash_a, hash_b))
    /\ UNCHANGED <<cfgVars, stdVars, now, first_run, hash_a, hash_b,
                   adv_similarity, reselected, toolVars, impVars, pc, result, scanVars,
                   slide_frames, grp_pos, groupVars, saveVars>>

InitHash ==
    /\ variant = "none"
    /\ video = NoVideo
    /\ total_frames = 0
    /\ fps = 0
    /\ fps_den = 1
    /\ similarity_threshold = 850
    /\ group_threshold = 900
    /\ pc = "call"
    /\ result = "none"
    /\ scan_i = 0
    /\ prev_frame = None
    /\ prev_frame_idx = -1
    /\ candidate_frames = <<>>
    /\ cand_pos = 1
    /\ slide_frames = <<>>
    /\ grp_pos = 1
    /\ slides_info = <<>>
    /\ phash_to_group = <<>>
    /\ current_group_id = 0
    /\ processed_hashes = {}
    /\ final_slides = <<>>
    /\ save_pos = 1
    /\ saved_files = <<>>
    /\ disk = {}
    /\ metadata_file = None
    /\ frames_read = 0
    /\ final_frames = <<>>
    /\ gap_i = 1
    /\ check_idx = -1
    /\ similarity_groups = <<>>
    /\ unique_frames = <<>>
    /\ metadata = <<>>
    /\ StdIdle
    /\ now = 0
    /\ first_run = None
    /\ hash_a \in HexStrings
    /\ hash_b \in HexStrings
    /\ adv_similarity = NotCalled
    /\ imp_similarity = NotCalled
    /\ reselected = NotReselected
    /\ ReorderIdle

NextHash ==
    \/ CallHashSimilarity
    \/ CallPhashSimilarity

SpecHash == InitHash /\ [][NextHash]_vars

\* two rationals are the same number
RatEq(x, y) == x[1] * y[2] = y[1] * x[2]

\* C13: called on two hex strings of different lengths, neither
\* hash_similarity nor calculate_phash_similarity returns a similarity
C13_LengthMismatchIsFatal ==
    Len(hash_a) # Len(hash_b) =>
        /\ adv_similarity.called => adv_similarity.raised
        /\ imp_similarity.called => imp_similarity.raised

\* C14: on two hex strings of the same length, hash_similarity and
\* calculate_phash_similarity return the value they return with the operands
\* exchanged
C14_Symmetric ==
    Len(hash_a) = Len(hash_b) =>
        /\ adv_similarity.called =>
              /\ ~adv_similarity.raised
              /\ RatEq(adv_similarity.value, hash_similarity(hash_b, hash_a))
        /\ imp_similarity.called =>
              /\ ~imp_similarity.raised
              /\ RatEq(imp_similarity.value,
                       calculate_phash_similarity(hash_b, hash_a))

\* both functions have been called on two different strings of one length
C14_Witness ==
    /\ Len(hash_a) = Len(hash_b)
    /\ hash_a # hash_b
    /\ Len(hash_a) > 1
    /\ adv_similarity.called
    /\ imp_similarity.called
    /\ ~RatEq(adv_similarity.value, <<1, 1>>)

\* C15: called on a hex string and itself, hash_similarity and
\* calculate_phash_similarity return exactly 1.0
C15_Reflexive ==
    hash_a = hash_b =>
        /\ adv_similarity.called =>
              /\ ~adv_similarity.raised
              /\ adv_similarity.value[1] = adv_similarity.value[2]
        /\ imp_similarity.called =>
              /\ ~imp_similarity.raised
              /\ imp_similarity.value[1] = imp_similarity.value[2]

\* both functions have been called on one string and itself
C15_Witness ==
    /\ hash_a = hash_b
    /\ Len(hash_a) > 1
    /\ adv_similarity.called
    /\ imp_similarity.called
    /\ ~adv_similarity.raised
    /\ ~imp_similarity.raised
(***************************************************************************)
(* the per-group selection of supplementary_detection applied once more    *)
(***************************************************************************)
\* the groups are those of the first application: the sorted frames with the
\* group each was given; the selection loop runs over them again
SelectAgain ==
    /\ variant = "improved"
    /\ pc = "save"
    /\ save_pos = 1
    /\ ~reselected.done
    /\ \E hashes \in {HashesOf(final_frames)} :
       \E data \in {GroupFrames(hashes, [k \in 1..Len(final_frames) |-> -1],
                                1, 0)} :
       \E frame_data \in {FrameData(final_frames, hashes, data)} :
          reselected' = [done |-> TRUE,
                         frames |-> SortByFrame(PickedFrames(frame_data))]
    /\ UNCHANGED <<cfgVars, stdVars, now, first_run, callVars, toolVars,
                   impVars, pc,
                   result, scanVars, slide_frames, grp_pos, groupVars,
                   saveVars>>

NextSelect ==
    \/ SuppGap
    \/ SuppCheck
    \/ SuppGroupSelect
    \/ SelectAgain

SpecSelect == InitSupp /\ [][NextSelect]_vars

GroupStage(n) ==
    GroupFramesUpTo(HashesOf(final_frames),
                    [k \in 1..Len(final_frames) |-> -1], 1, 0, n)

\* an iteration of the grouping loop leaves every frame that has a group in
\* the group it has
ImprovedWriteOnce ==
    (variant = "improved" /\ pc = "save") =>
        \A n \in 0..(Len(final_frames) - 1) :
            \E before \in {GroupStage(n)} :
            \E after \in {GroupStage(n + 1)} :
                \A k \in 1..Len(final_frames) :
                    before[k] # -1 => after[k] = before[k]

\* C17: the group_id and subgroup_idx of a record of slides_info are never
\* changed by a later step of the run (grouping of later records, saving,
\* metadata), so that groups neither merge nor split; in the improved class
\* the grouping loop never regroups a frame, and the groups recorded in
\* similarity_groups and in the metadata entries stay as they are
C17_GroupAssignmentWriteOnce ==
    [][/\ \A k \in 1..Len(slides_info) :
             /\ Len(slides_info') >= k
             /\ slides_info'[k].frame_idx = slides_info[k].frame_idx
             /\ slides_info'[k].group_id = slides_info[k].group_id
             /\ slides_info'[k].subgroup_idx = slides_info[k].subgroup_idx
       /\ \A k \in 1..Len(metadata) :
             /\ Len(metadata') >= k
             /\ metadata'[k].frame_index = metadata[k].frame_index
             /\ metadata'[k].group_id = metadata[k].group_id
       /\ similarity_groups # <<>> => similarity_groups' = similarity_groups
       /\ ImprovedWriteOnce]_vars

\* the improved class has grouped three frames of which the last is in the
\* group of the first although it is similar to the second, a founder too,
\* and has saved a slide since
C17_Witness ==
    /\ variant = "improved"
    /\ pc = "save"
    /\ Len(metadata) >= 1
    /\ \E data \in {GroupStage(Len(final_frames))} :
       \E i, j, k \in 1..Len(final_frames) :
          /\ i < j /\ j < k
          /\ data[k] = data[i]
          /\ data[j] # data[i]
          /\ \A m \in 1..(j - 1) : data[m] # data[j]
          /\ RatGT(calculate_phash_similarity(
                      calculate_phash(final_frames[j].frame),
                      calculate_phash(final_frames[k].frame)),
                   Pm(phash_group_bound))

(***************************************************************************)
(* reorder_slides.py: renumbering the image files of a folder by the       *)
(* timestamp found in their names.  Times are in tenths of a second.  A    *)
(* file name is [form, idx, minutes, tenths, hash]:                        *)
(*   form "s":  slide_{idx:03d}_t{tenths/10:.1f}s.jpg                      *)
(*   form "m":  slide_{idx:03d}_t{minutes}m{tenths/10:.1f}s[_h{hash}].jpg  *)
(* hash = 0 stands for a name without the _h part.  A file is              *)
(* [capture, name], capture being the time its frame was taken at.         *)
(***************************************************************************)

\* no pipeline has run: the state of the capture variables when only a
\* post-processing tool is used
PipelineIdle ==
    /\ variant = "none"
    /\ video = NoVideo
    /\ total_frames = 0
    /\ fps = 0
    /\ fps_den = 1
    /\ similarity_threshold = 850
    /\ group_threshold = 900
    /\ result = "none"
    /\ scan_i = 0
    /\ prev_frame = None
    /\ prev_frame_idx = -1
    /\ candidate_frames = <<>>
    /\ cand_pos = 1
    /\ slide_frames = <<>>
    /\ grp_pos = 1
    /\ slides_info = <<>>
    /\ phash_to_group = <<>>
    /\ current_group_id = 0
    /\ processed_hashes = {}
    /\ final_slides = <<>>
    /\ save_pos = 1
    /\ saved_files = <<>>
    /\ disk = {}
    /\ metadata_file = None
    /\ frames_read = 0
    /\ final_frames = <<>>
    /\ gap_i = 1
    /\ check_idx = -1
    /\ similarity_groups = <<>>
    /\ unique_frames = <<>>
    /\ metadata = <<>>

MaxRuns == 2

\* capture times of the files a folder may hold: 5.0 s, 12.3 s, 1 min 5.0 s,
\* 1 min 30.5 s, 2 min 5.0 s
CaptureTimes == {50, 123, 650, 905, 1250}

MaxFiles == 3

\* f"slide_{n:03d}_t{timestamp:.1f}s.jpg" of the ultra variant
SecondsName(n, t) ==
    [form |-> "s", idx |-> n, minutes |-> 0, tenths |-> t, hash |-> 0]

\* f"slide_{idx:03d}_t{minutes}m{seconds:.1f}s{hash_str}.jpg", with
\* minutes = int(timestamp / 60) and seconds = timestamp % 60
MinutesName(n, t, h) ==
    [form |-> "m", idx |-> n, minutes |-> t \div 600, tenths |-> t % 600,
     hash |-> h]

\* extract_timestamp: the first of the three patterns that matches.
\*   r'_t(\d+\.?\d*)s' matches a seconds-form name and gives its time;
\*   in a minutes-form name "_t" is followed by digits and then "m", so it
\*   fails, as does r'_(\d+\.?\d*)s' (no "_" is followed by a number and
\*   "s"); r't(\d+\.?\d*)' then matches "t{minutes}" and gives the minutes
\*   digits as the number of seconds.
extract_timestamp(name) ==
    IF name.form = "s" THEN name.tenths ELSE 10 * name.minutes

\* re.search(r'_h([a-f0-9]+)', old_file.name): the hash part is carried over
new_name(n, name) ==
    MinutesName(n, extract_timestamp(name), name.hash)

\* folder.iterdir() gives the files in an order the file system chooses
Listings(files) ==
    {q \in [1..Cardinality(files) -> files] :
        \A i, j \in DOMAIN q : i # j => q[i] # q[j]}

\* files_with_time.sort(key=lambda x: x[0]): a stable sort on the timestamp
SortByTime(q) ==
    LET key(i) == extract_timestamp(q[i].name)
        pos(i) == 1 + Cardinality({j \in DOMAIN q :
                          \/ key(j) < key(i)
                          \/ (key(j) = key(i) /\ j < i)})
    IN [k \in DOMAIN q |-> q[CHOOSE i \in DOMAIN q : pos(i) = k]]

\* old_file.rename(new_path) for the entries k.. of the sorted list: the
\* file now named like the entry's old name takes the new name, replacing a
\* file that has it
RECURSIVE RenameFrom(_, _, _)
RenameFrom(sorted, k, files) ==
    IF k > Len(sorted) THEN files
    ELSE LET old == sorted[k].name
             new == new_name(k, old)
         IN IF old = new THEN RenameFrom(sorted, k + 1, files)
            ELSE CHOOSE r \in {RenameFrom(sorted, k + 1, d) :
                     d \in {{f \in files : f.name # old /\ f.name # new}
                            \cup {[capture |-> f.capture, name |-> new] :
                                    f \in {g \in files : g.name = old}}}} : TRUE

FileNames(files) == {f.name : f \in files}

\* reorder_slides(folder_path, create_backup): the folder holds image files
\* and no slides_metadata.json; the backup copies go to a sub-folder and
\* change nothing in the folder itself
ReorderSlides ==
    /\ pc = "reorder"
    /\ reorder_runs < MaxRuns
    /\ \E listing \in Listings(folder) :
           folder' = RenameFrom(SortByTime(listing), 1, folder)
    /\ names_before' = FileNames(folder)
    /\ reorder_runs' = reorder_runs + 1
    /\ UNCHANGED <<cfgVars, stdVars, now, first_run, callVars, reselected,
                   frame_groups, removed, impVars, pc, result, scan_i, prev_frame,
                   prev_frame_idx,
                   candidate_frames, cand_pos, slide_frames, grp_pos,
                   slides_info, phash_to_group, current_group_id,
                   processed_hashes, final_slides, save_pos, saved_files,
                   disk, metadata_file, frames_read>>

\* folders of two or three files written by the emitters, each in the seconds
\* form or in the minutes form with the hash of its frame, carrying any
\* numbering
EmittedFolders ==
    UNION {{{[capture |-> t,
              name |-> IF form[t] = "s" THEN SecondsName(num[t], t)
                       ELSE MinutesName(num[t], t, t)] : t \in times} :
              form \in [times -> {"s", "m"}],
              num \in {n \in [times -> 1..Cardinality(times)] :
                          \A a, b \in times : a # b => n[a] # n[b]}} :
           times \in {c \in SUBSET CaptureTimes :
                         Cardinality(c) >= 2 /\ Cardinality(c) <= MaxFiles}}

InitReorder ==
    /\ PipelineIdle
    /\ pc = "reorder"
    /\ StdIdle
    /\ CallIdle
    /\ reselected = NotReselected
    /\ now = 0
    /\ first_run = None
    /\ folder \in EmittedFolders
    /\ reorder_runs = 0
    /\ names_before = {}
    /\ frame_groups = NotGrouped
    /\ removed = NotRemoved

NextReorder == ReorderSlides

SpecReorder == InitReorder /\ [][NextReorder]_vars

\* C18: once reorder_slides has run on a folder, a file with an earlier
\* capture time has a smaller ordinal index in its name, and a second run
\* leaves every file name as the first run wrote it.
C18_OrderedAndIdempotent ==
    reorder_runs >= 1 =>
        /\ \A f, g \in folder :
               f.capture < g.capture => f.name.idx < g.name.idx
        /\ reorder_runs >= 2 => FileNames(folder) = names_before

(***************************************************************************)
(* The grouping rule of find_or_create_group, stated on the records        *)
(***************************************************************************)

\* the founders of the groups of a record list: the first record of each
Founders(info) ==
    {k \in 1..Len(info) : \A j \in 1..(k - 1) :
                              info[j].group_id # info[k].group_id}

\* the founders whose pHash is similar enough to phash for a join
NearFounders(info, phash, thr) ==
    {k \in Founders(info) :
        RatGE(hash_similarity(phash, info[k].phash), Pm(thr))}

\* record r was placed by the rule after the records of info
PlacedByRule(info, r, thr) ==
    LET near == NearFounders(info, r.phash, thr)
        sim(k) == hash_similarity(r.phash, info[k].phash)
    IN  IF near # {}
        THEN \E k \in near :
                /\ \A j \in near : RatLE(sim(j), sim(k))
                /\ \A j \in near : RatEq(sim(j), sim(k)) =>
                                      info[k].group_id <= info[j].group_id
                /\ r.group_id = info[k].group_id
        ELSE /\ \A j \in 1..Len(info) : info[j].group_id # r.group_id
             /\ r.subgroup_idx = 1

\* C19: every record that the grouping pass adds joins an existing group
\* exactly when some founder's pHash has similarity >= group_threshold to
\* it, and then the group of the most similar founder (the earliest group on
\* a tie); otherwise it founds a new group.  Members that are not founders
\* play no part.
C19_GroupingRule ==
    [][Len(slides_info') = Len(slides_info) + 1 =>
          PlacedByRule(slides_info, slides_info'[Len(slides_info')],
                       group_threshold)]_vars

\* the third record is within the threshold of both founders and went to the
\* second group, whose founder is the more similar one
C19_Witness ==
    /\ variant = "advanced"
    /\ Len(slides_info) = 3
    /\ slides_info[1].group_id = 1
    /\ slides_info[2].group_id = 2
    /\ slides_info[3].group_id = 2
    /\ NearFounders(SubSeq(slides_info, 1, 2), slides_info[3].phash,
                    group_threshold) = {1, 2}

(***************************************************************************)
(* The two grouping passes on one sequence of pHashes: the accepted        *)
(* records go through group_and_deduplicate of AdvancedSlideCapture, and   *)
(* the grouping loop of ImprovedSlideCapture.supplementary_detection runs  *)
(* on the pHashes of the same records, at its threshold of 0.9             *)
(***************************************************************************)
BothPics == {1, 2, 6, 9, 10}

BothLists == UNION {[1..n -> BothPics] : n \in 0..MaxRecords}

\* the loop "for i, data in enumerate(frame_data)" on frame_data built from
\* the pHashes of slide_frames, every 'group' starting at -1
GroupLoopImproved ==
    /\ variant = "advanced"
    /\ pc \in {"group", "save"}
    /\ ~frame_groups.done
    /\ \E hashes \in {[k \in 1..Len(slide_frames) |-> slide_frames[k].phash]} :
          frame_groups' =
              [done |-> TRUE,
               group |-> GroupFrames(hashes,
                                     [k \in 1..Len(hashes) |-> -1], 1, 0)]
    /\ UNCHANGED <<cfgVars, stdVars, now, first_run, callVars, reselected,
                   reorderVars, removed, impVars, pc, result, scanVars,
                   slide_frames, grp_pos, groupVars, saveVars>>

\* group_threshold = 0.90, the threshold of the improved loop
InitBoth == InitGrouping(BothLists, {phash_group_bound})

NextBoth ==
    \/ GroupStep
    \/ GroupDone
    \/ GroupLoopImproved

SpecBoth == InitBoth /\ [][NextBoth]_vars

\* the place in slide_frames of the n-th record of slides_info
PlaceOf(n) ==
    CHOOSE k \in 1..Len(slide_frames) :
        slide_frames[k].frame_idx = slides_info[n].frame_idx

\* C20: on one timestamp-ordered sequence of pHashes and at the threshold
\* 0.90, two records that the advanced pass keeps are in one group of the
\* advanced pass exactly when the grouping loop of the improved variant put
\* them in one group.
C20_SamePartition ==
    (GroupingComplete /\ frame_groups.done) =>
        \A a, b \in 1..Len(slides_info) :
            (slides_info[a].group_id = slides_info[b].group_id)
                <=> (frame_groups.group[PlaceOf(a)]
                        = frame_groups.group[PlaceOf(b)])

(***************************************************************************)
(* supplementary_detection on four accepted records: three opening         *)
(* pictures accepted at frames 0, 3 and 6, a gap of 44 seconds in which a  *)
(* fourth picture may be on screen, and the record at frame 50             *)
(***************************************************************************)
WindowAt == <<0, 3, 6, 50>>

\* where the picture of the gap comes on screen and leaves it
GapCuts == {<<8, 20>>, <<12, 30>>, <<20, 48>>}

InitWindow ==
    /\ OtherIdle
    /\ variant = "improved"
    /\ similarity_threshold = 850
    /\ group_threshold = 900
    /\ total_frames = 100
    /\ fps = 1
    /\ fps_den = 1
    /\ \E a \in FramesImproved, b \in FramesImproved, c \in FramesImproved,
          g \in FramesImproved, d \in FramesImproved :
       \E cuts \in GapCuts, bad \in {{}, {16, 31}} :
          /\ IsNewSlideImproved(a, b)
          /\ IsNewSlideImproved(b, c)
          /\ IsNewSlideImproved(c, d)
          /\ video = [cut1 |-> cuts[1], cut2 |-> cuts[2], img1 |-> c,
                      img2 |-> g, img3 |-> d, bad |-> bad,
                      lead |-> <<[until |-> WindowAt[2], img |-> a],
                                 [until |-> WindowAt[3], img |-> b]>>]
          /\ slide_frames = <<[frame_idx |-> WindowAt[1], frame |-> a],
                              [frame_idx |-> WindowAt[2], frame |-> b],
                              [frame_idx |-> WindowAt[3], frame |-> c],
                              [frame_idx |-> WindowAt[4], frame |-> d]>>
          /\ prev_frame = d
    /\ prev_frame_idx = WindowAt[4]
    /\ final_frames = slide_frames
    /\ pc = "supp"
    /\ result = "none"
    /\ scan_i = 120
    /\ candidate_frames = WindowAt
    /\ cand_pos = 5
    /\ grp_pos = 1
    /\ slides_info = <<>>
    /\ phash_to_group = <<>>
    /\ current_group_id = 0
    /\ processed_hashes = {}
    /\ final_slides = <<>>
    /\ save_pos = 1
    /\ saved_files = <<>>
    /\ disk = {}
    /\ metadata_file = None
    /\ frames_read = 4
    /\ gap_i = 1
    /\ check_idx = -1
    /\ similarity_groups = <<>>
    /\ unique_frames = <<>>
    /\ metadata = <<>>

NextWindow ==
    \/ SuppGap
    \/ SuppCheck
    \/ SuppGroupSelect

SpecWindow == InitWindow /\ [][NextWindow]_vars

\* the inner loop is at a frame of the gap
Resampling ==
    /\ variant = "improved"
    /\ pc = "supp"
    /\ check_idx # -1
    /\ check_idx < slide_frames[gap_i + 1].frame_idx

\* the records of slide_frames before (n < 0) or after (n > 0) the frame at
\* check_idx, at most |n| of them, the nearest ones
Neighbours(n) ==
    {k \in 1..Len(slide_frames) :
        IF n < 0
        THEN /\ slide_frames[k].frame_idx < check_idx
             /\ Cardinality({j \in 1..Len(slide_frames) :
                    /\ slide_frames[j].frame_idx < check_idx
                    /\ slide_frames[j].frame_idx > slide_frames[k].frame_idx})
                  < -n
        ELSE /\ slide_frames[k].frame_idx > check_idx
             /\ Cardinality({j \in 1..Len(slide_frames) :
                    /\ slide_frames[j].frame_idx > check_idx
                    /\ slide_frames[j].frame_idx < slide_frames[k].frame_idx})
                  < n}

\* the frame at check_idx is read and none of the records has an SSIM above
\* 0.95 with it
ClearOf(records) ==
    /\ ReadOk(check_idx)
    /\ \A k \in records :
          RatLE(ssim(slide_frames[k].frame, ImageAt(check_idx)),
                <<duplicate_bound, 100>>)

Added == final_frames' = Append(final_frames,
                                [frame_idx |-> check_idx,
                                 frame |-> ImageAt(check_idx)])

CandidateAfterDwell ==
    /\ variant = "improved"
    /\ pc = "precise"
    /\ cand_pos <= Len(candidate_frames)
    /\ slide_frames # <<>>
    /\ ReadOk(candidate_frames[cand_pos])
    /\ candidate_frames[cand_pos]
           - slide_frames[Len(slide_frames)].frame_idx > fps

\* some signal between the last accepted frame and the candidate crosses its
\* bound
SignalCrossed ==
    LET last == slide_frames[Len(slide_frames)].frame
        frame == ImageAt(candidate_frames[cand_pos])
    IN  \/ RatLT(ssim(last, frame), Pm(similarity_threshold))
        \/ RatLT(calculate_edge_diff(last, frame), <<9, 10>>)
        \/ detect_text_regions(frame) - detect_text_regions(last) > 5
        \/ detect_text_regions(last) - detect_text_regions(frame) > 5

CandidateAccepted ==
    slide_frames' = Append(slide_frames,
                           [frame_idx |-> candidate_frames[cand_pos],
                            frame |-> ImageAt(candidate_frames[cand_pos])])

\* C22: a decoded candidate more than the dwell time after the last accepted
\* frame is accepted if and only if ssim < threshold or edge similarity < 0.9
\* or the text-region counts differ by more than 5, each measured against
\* the last accepted frame; otherwise the list of accepted frames is left
\* as it is.
C22_AcceptedIffSignal ==
    [][CandidateAfterDwell =>
          /\ (CandidateAccepted <=> SignalCrossed)
          /\ (CandidateAccepted \/ slide_frames' = slide_frames)]_vars

\* a second frame was accepted on the text-region signal alone, after
\* candidates showing the first picture had been rejected
C22_Witness ==
    /\ variant = "improved"
    /\ pc = "precise"
    /\ Len(slide_frames) = 2
    /\ ~RatLT(ssim(slide_frames[1].frame, slide_frames[2].frame),
              Pm(similarity_threshold))
    /\ ~RatLT(calculate_edge_diff(slide_frames[1].frame,
                                  slide_frames[2].frame), <<9, 10>>)
    /\ \E k \in 1..(cand_pos - 1) :
          /\ candidate_frames[k] > slide_frames[1].frame_idx + fps
          /\ candidate_frames[k] < slide_frames[2].frame_idx
          /\ ReadOk(candidate_frames[k])

(***************************************************************************)
(* The precise detectors called on any list of candidate indices, sorted   *)
(* or not, for a short file whose picture changes every one or two frames  *)
(***************************************************************************)
MaxCands == 3

ShortLength == 8

CandidateLists == UNION {[1..n -> 0..ShortLength] : n \in 0..MaxCands}

\* the two pictures that alternate: frames 0, 2, 3, 5 show the first one and
\* frames 1, 4, 6, 7 the second
PicturePairs ==
    {<<Solid(0), Picture(30, 1)>>, <<Picture(30, 1), Picture(30, 3)>>,
     <<Picture(30, 1), Picture(30, 2)>>}

InitPrecise ==
    /\ OtherIdle
    /\ variant \in {"advanced", "improved"}
    /\ \E p \in PicturePairs :
          video = [cut1 |-> 5, cut2 |-> 6, img1 |-> p[2], img2 |-> p[1],
                   img3 |-> p[2], bad |-> {},
                   lead |-> <<[until |-> 1, img |-> p[1]],
                              [until |-> 2, img |-> p[2]],
                              [until |-> 4, img |-> p[1]]>>]
    /\ total_frames = ShortLength
    /\ fps \in {2, 4}
    /\ fps_den = 1
    /\ similarity_threshold = 850
    /\ group_threshold = 900
    /\ pc = "precise"
    /\ result = "none"
    /\ scan_i = total_frames
    /\ prev_frame = None
    /\ prev_frame_idx = -1
    /\ candidate_frames \in CandidateLists
    /\ cand_pos = 1
    /\ slide_frames = <<>>
    /\ grp_pos = 1
    /\ slides_info = <<>>
    /\ phash_to_group = <<>>
    /\ current_group_id = 0
    /\ processed_hashes = {}
    /\ final_slides = <<>>
    /\ save_pos = 1
    /\ saved_files = <<>>
    /\ disk = {}
    /\ metadata_file = None
    /\ frames_read = 0
    /\ final_frames = <<>>
    /\ gap_i = 1
    /\ check_idx = -1
    /\ similarity_groups = <<>>
    /\ unique_frames = <<>>
    /\ metadata = <<>>

NextPrecise ==
    \/ PreciseStepAdvanced
    \/ PreciseDoneAdvanced
    \/ PreciseStepImproved
    \/ PreciseDoneImproved

SpecPrecise == InitPrecise /\ [][NextPrecise]_vars

\* C23: any two consecutive records of the list of the precise detector are
\* more than the minimum slide interval apart: more than fps frames in
\* ImprovedSlideCapture, more than fps / 2 frames in AdvancedSlideCapture.
C23_MinimumDwell ==
    \A k \in 1..(Len(slide_frames) - 1) :
        LET apart == slide_frames[k + 1].frame_idx - slide_frames[k].frame_idx
        IN  /\ variant = "improved" => apart > fps
            /\ variant = "advanced" => 2 * apart > fps

\* the list <<x, y, z>> gave the records x and z: the frame at y differs
\* from the one at x but comes no more than fps frames after it
C23_Witness ==
    /\ variant = "improved"
    /\ Len(candidate_frames) = 3
    /\ cand_pos = 4
    /\ Len(slide_frames) = 2
    /\ slide_frames[1].frame_idx = candidate_frames[1]
    /\ slide_frames[2].frame_idx = candidate_frames[3]
    /\ candidate_frames[1] < candidate_frames[2]
    /\ candidate_frames[2] < candidate_frames[3]
    /\ candidate_frames[2] - candidate_frames[1] <= fps
    /\ 2 * (candidate_frames[2] - candidate_frames[1]) > fps
    /\ ReadOk(candidate_frames[2])
    /\ RatLT(ssim(slide_frames[1].frame, ImageAt(candidate_frames[2])),
             Pm(similarity_threshold))

(***************************************************************************)
(* Representative selection of supplementary_detection                     *)
(***************************************************************************)
\* supplementary_detection has returned unique_frames
SelectionDone == variant = "improved" /\ pc \in {"save", "done"} /\ result # "failure"

\* the group of every frame of final_frames
GroupOfFinal ==
    CHOOSE r \in {GroupFrames(h, [k \in 1..Len(final_frames) |-> -1], 1, 0) :
                     h \in {HashesOf(final_frames)}} : TRUE

\* the places in final_frames of the members of group g, grp being the
\* group of every frame
MembersOf(grp, g) == {k \in 1..Len(final_frames) : grp[k] = g}

\* the place in final_frames that the selection must keep for the group
\* with the given members: of maximal sharpness, and the earliest such
Sharpest(members) ==
    CHOOSE k \in members :
        /\ \A j \in members :
              Sharpness(final_frames[j].frame) <= Sharpness(final_frames[k].frame)
        /\ \A j \in members :
              Sharpness(final_frames[j].frame) = Sharpness(final_frames[k].frame)
                  => k <= j

\* C24: the selection outputs exactly one record per similarity group: the
\* number of emitted slides is the number of groups, and the slide emitted
\* for a group is its sole member or, in a group of several, the member of
\* maximal Laplacian-variance sharpness, the earliest one on a tie.
C24_OnePerGroupSharpest ==
    SelectionDone =>
        \A grp \in {GroupOfFinal} :
        \A gids \in {{grp[k] : k \in 1..Len(final_frames)}} :
            /\ Len(unique_frames) = Cardinality(gids)
            /\ \A g \in gids :
               \A members \in {MembersOf(grp, g)} :
               \A best \in {Sharpest(members)} :
                  LET kept == {n \in 1..Len(unique_frames) :
                                  \E k \in members :
                                      unique_frames[n].frame_idx
                                          = final_frames[k].frame_idx}
                  IN  /\ Cardinality(kept) = 1
                      /\ \A n \in kept :
                            /\ unique_frames[n].frame_idx
                                  = final_frames[best].frame_idx
                            /\ unique_frames[n].frame = final_frames[best].frame

\* the selection has run on a group of several members whose sharpest member
\* is not its first, next to a group of one member
C24_Witness ==
    /\ SelectionDone
    /\ \E grp \in {GroupOfFinal} :
          /\ \E g \in {grp[k] : k \in 1..Len(final_frames)} :
             \E members \in {MembersOf(grp, g)} :
                /\ Cardinality(members) > 1
                /\ \E j \in members : j < Sharpest(members)
          /\ \E g \in {grp[k] : k \in 1..Len(final_frames)} :
                Cardinality(MembersOf(grp, g)) = 1

(***************************************************************************)
(* fast_scan on files of the three length classes, which give the strides  *)
(* 30, 45 and 60                                                           *)
(***************************************************************************)
ScanFrames == {Solid(0), Solid(40), Picture(30, 1)}

\* files of 100, 5400 and 10200 frames at 30 fps with two cuts, read without
\* error or with two samples unreadable
LongVideoFiles ==
    {[total_frames |-> n, fps |-> 30, cut1 |-> n \div 3, cut2 |-> (2 * n) \div 3,
      img1 |-> a, img2 |-> b, img3 |-> c, bad |-> bad, lead |-> <<>>] :
        n \in {100, 5400, 10200}, a \in ScanFrames, b \in ScanFrames,
        c \in ScanFrames, bad \in {{}, {60, 1800, 3600}}}

InitScan ==
    \/ InitRun("advanced", LongVideoFiles, {<<850, 900>>})
    \/ InitRun("improved", LongVideoFiles, {<<850, 900>>})

NextScan ==
    \/ Start
    \/ FastScanStep
    \/ FastScanDone

SpecScan == InitScan /\ [][NextScan]_vars

\* the loop of fast_scan is at sample scan_i
AtSample == pc = "fast_scan" /\ scan_i < total_frames

\* the samples before scan_i that were decoded
DecodedBefore ==
    {j \in 0..(scan_i - 1) : j % ScanStep(total_frames) = 0 /\ ReadOk(j)}

\* sample scan_i is decoded and its histogram similarity to the previous
\* decoded sample is below 0.95
Flagged ==
    /\ ReadOk(scan_i)
    /\ DecodedBefore # {}
    /\ \E j \in DecodedBefore :
          /\ \A m \in DecodedBefore : m <= j
          /\ RatLT(calculate_histogram_diff(ImageAt(j), ImageAt(scan_i)),
                   <<95, 100>>)

\* C25: the candidates that fast_scan adds at a sample are added only for a
\* sample whose histogram similarity to the previous one is below 0.95; each
\* lies in [0, total_frames) and within step/2 frames of the sample, and
\* they are 5 frames apart, for the strides 30, 45 and 60.
C25_CandidatesWithinHalfStep ==
    [][AtSample =>
          \A added \in {SubSeq(candidate_frames', Len(candidate_frames) + 1,
                               Len(candidate_frames'))} :
             /\ added # <<>> => Flagged
             /\ \A k \in 1..Len(added) :
                   /\ 0 <= added[k] /\ added[k] < total_frames
                   /\ 2 * (added[k] - scan_i) <= ScanStep(total_frames)
                   /\ 2 * (scan_i - added[k]) <= ScanStep(total_frames)
                   /\ k > 1 => added[k] - added[k - 1] = 5]_vars

(***************************************************************************)
(* slide_post_processor.py: remove_duplicates_in_groups on the folder that *)
(* a run of AdvancedSlideCapture has written                               *)
(***************************************************************************)
\* the --threshold default of the tool, in hundredths
remove_threshold == 95

\* the picture saved under a file name
FileImage(filename) ==
    LET j == CHOOSE n \in 1..Len(final_slides) :
                 slides_info[final_slides[n].info].filename = filename
    IN  final_slides[j].frame

\* compare_images: 1 - mse / 255^2 with mse = np.mean((arr1 - arr2) ** 2) on
\* uint8 arrays: the difference and its square wrap around modulo 256, so
\* that mse <= 255 and the result is at least 1 - 255/65025 = 254/255
\* whatever the two pictures are; this is the value for the least similar
\* pair
compare_images(img1, img2) ==
    IF img1 = img2 THEN <<1, 1>> ELSE <<254, 255>>

\* to_remove of one group: the slides less than a second after the slide
\* before them in the group's list whose picture compares above the threshold
ToRemove(slides) ==
    {slides[i].filename : i \in
        {i \in 2..Len(slides) :
            /\ RatLT(RatSub(slides[i].timestamp, slides[i - 1].timestamp),
                     <<1, 1>>)
            /\ slides[i - 1].filename \in disk
            /\ slides[i].filename \in disk
            /\ RatGT(compare_images(FileImage(slides[i - 1].filename),
                                    FileImage(slides[i].filename)),
                     <<remove_threshold, 100>>)}}

\* update_metadata_after_removal for the files that exist
UpdatedMetadata(md, existing_files) ==
    [md EXCEPT
        !.slides = SelectSeq(md.slides,
                             LAMBDA x : x.filename \in existing_files),
        !.groups = [g \in DOMAIN md.groups |->
            LET group_slides ==
                    SelectSeq(md.groups[g].slides,
                              LAMBDA x : x.filename \in existing_files)
            IN  [slide_count |-> Len(group_slides), slides |-> group_slides]]]

\* SlidePostProcessor(folder).remove_duplicates_in_groups(0.95)
RemoveDuplicatesInGroups ==
    /\ variant = "advanced"
    /\ pc = "done"
    /\ result = "success"
    /\ metadata_file # None
    /\ ~removed.done
    /\ \E gone \in {UNION {ToRemove(metadata_file.groups[g].slides) :
                       g \in {h \in DOMAIN metadata_file.groups :
                                 metadata_file.groups[h].slide_count > 1}}} :
          /\ disk' = disk \ gone
          /\ removed' = [done |-> TRUE, count |-> Cardinality(gone)]
          /\ metadata_file' =
                IF Cardinality(gone) > 0
                THEN UpdatedMetadata(metadata_file, disk \ gone)
                ELSE metadata_file
    /\ UNCHANGED <<cfgVars, stdVars, now, first_run, callVars, reselected,
                   reorderVars, frame_groups, impVars, pc, result, scanVars,
                   slide_frames, grp_pos, groupVars, save_pos, saved_files>>

PostPics == {1, 4, 5, 6}

PostLists == UNION {[1..n -> PostPics] : n \in 0..MaxRecords}

\* the accepted records are 0.6 seconds apart
InitPost == InitGroupingAt(PostLists, {900}, 6)

NextPost ==
    \/ GroupStep
    \/ GroupDone
    \/ SaveStepAdvanced
    \/ SaveDoneAdvanced
    \/ SaveMetadataAdvanced
    \/ RemoveDuplicatesInGroups

SpecPost == InitPost /\ [][NextPost]_vars

\* C26: once remove_duplicates_in_groups has removed slides, the metadata
\* file lists only slides whose image exists, each group's slide_count is
\* the length of its list, and the subgroup_idx values left in a group are
\* exactly 1..slide_count.
C26_MetadataConsistentAfterRemoval ==
    (removed.done /\ removed.count > 0) =>
        /\ \A k \in 1..Len(metadata_file.slides) :
              metadata_file.slides[k].filename \in disk
        /\ \A g \in DOMAIN metadata_file.groups :
              LET info == metadata_file.groups[g]
              IN  /\ info.slide_count = Len(info.slides)
                  /\ {info.slides[k].subgroup_idx : k \in 1..Len(info.slides)}
                        = 1..info.slide_count

(***************************************************************************)
(* The first acceptance of the precise detectors                           *)
(***************************************************************************)
\* the loop is at a decoded candidate and no frame has been accepted yet
FirstDecodedCandidate ==
    /\ pc = "precise"
    /\ cand_pos <= Len(candidate_frames)
    /\ slide_frames = <<>>
    /\ ReadOk(candidate_frames[cand_pos])

\* C27: while no slide has been accepted, a candidate that is decoded is
\* accepted as the first record whatever its frame index, frame 0 and the
\* frames of the first second included.
C27_FirstAcceptanceUnconditional ==
    [][FirstDecodedCandidate =>
          /\ Len(slide_frames') = 1
          /\ slide_frames'[1].frame_idx = candidate_frames[cand_pos]
          /\ slide_frames'[1].frame = ImageAt(candidate_frames[cand_pos])]_vars

(***************************************************************************)
(* the slides that supplementary_detection returns, compared in pairs      *)
(***************************************************************************)
\* calculate_phash_similarity of two records of a list
PhashSimilarity(records, i, j) ==
    calculate_phash_similarity(calculate_phash(records[i].frame),
                               calculate_phash(records[j].frame))

\* C30: in the list that supplementary_detection returns, no two slides have
\* a pHash similarity above 0.9 to each other
C30_NoTwoEmittedSimilar ==
    SuppReturned =>
        \A i \in 1..Len(unique_frames), j \in 1..Len(unique_frames) :
            i < j => ~RatGT(PhashSimilarity(unique_frames, i, j),
                            Pm(phash_group_bound))
====
